---------------------------- MODULE Spec2Model ----------------------------
(***************************************************************************)
(* A model of common_chat_msg_parser (src/common/chat-parser.cpp): the     *)
(* cursor primitives, the reasoning extractor, the message builder and the *)
(* Qwen3 XML tool-call parser.                                             *)
(*                                                                         *)
(* Strings are sequences of one-character strings.  Offsets are 0-based,   *)
(* as in the C++ (text[i] of the source is s[i + 1] here), and             *)
(* std::string::npos is npos.                                              *)
(***************************************************************************)
EXTENDS Integers, Sequences, FiniteSets, TLC

VARIABLES
    input_,           \* common_chat_msg_parser::input_
    is_partial_,      \* common_chat_msg_parser::is_partial_
    syntax_,          \* common_chat_msg_parser::syntax_ (the fields the parser reads)
    pos_,             \* common_chat_msg_parser::pos_
    healing_marker_,  \* common_chat_msg_parser::healing_marker_
    result_,          \* common_chat_msg_parser::result_ (content, reasoning_content, tool_calls)
    last_xml_error_,  \* common_chat_msg_parser::last_xml_error_
    pc,               \* where the caller is: "constructing", "ready", "called", ...
    op,               \* the member function called last
    args,             \* its arguments
    ret,              \* what it returned, or that it threw
    pre,              \* pos_ and result_ as they were when it was called
    text,             \* the text the caller holds: the whole streamed text, a value to convert
    prior             \* the message the caller got from its previous parse

vars == <<input_, is_partial_, syntax_, pos_, healing_marker_, result_,
          last_xml_error_, pc, op, args, ret, pre, text, prior>>

-----------------------------------------------------------------------------
(* std::string and <cctype> *)

npos == -1

\* Stands for a size_t that wrapped below zero: larger than any length here.
SIZE_WRAPPED == 1000000

MinOf(S) == CHOOSE m \in S : \A y \in S : m <= y

MaxOf(S) == CHOOSE m \in S : \A y \in S : m >= y

\* std::isspace in the "C" locale; "VT" stands for '\v'.
isspace(c) == c \in {" ", "\t", "\n", "VT", "\f", "\r"}

\* s.substr(pos, count)
substr(s, pos, count) ==
    SubSeq(s, pos + 1, IF pos + count > Len(s) THEN Len(s) ELSE pos + count)

\* s.substr(pos)
substr_from(s, pos) == SubSeq(s, pos + 1, Len(s))

\* whether pat lies in s at offset i
MatchAt(s, pat, i) ==
    /\ i >= 0
    /\ i + Len(pat) <= Len(s)
    /\ \A j \in 1..Len(pat) : s[i + j] = pat[j]

\* s.find(pat, from)
find(s, pat, from) ==
    LET C == {i \in from..(Len(s) - Len(pat)) : MatchAt(s, pat, i)}
    IN  IF C = {} THEN npos ELSE MinOf(C)

\* s.find_first_not_of(set) and s.find_last_not_of(set)
find_first_not_of(s, set) ==
    LET C == {i \in 0..(Len(s) - 1) : s[i + 1] \notin set}
    IN  IF C = {} THEN npos ELSE MinOf(C)

find_last_not_of(s, set) ==
    LET C == {i \in 0..(Len(s) - 1) : s[i + 1] \notin set}
    IN  IF C = {} THEN npos ELSE MaxOf(C)

Digits == <<"0", "1", "2", "3", "4", "5", "6", "7", "8", "9">>

\* std::to_string of a value that is not negative
RECURSIVE to_string(_)
to_string(n) ==
    IF n < 10 THEN <<Digits[n + 1]>>
    ELSE to_string(n \div 10) \o <<Digits[(n % 10) + 1]>>

\* a - b in size_t
size_sub(a, b) == IF a >= b THEN a - b ELSE SIZE_WRAPPED

-----------------------------------------------------------------------------
(* Collaborators of the parser that live outside chat-parser.cpp *)

\* string_strip: s without its leading and trailing whitespace
string_strip(s) ==
    LET keep == {i \in 1..Len(s) : ~isspace(s[i])}
    IN  IF keep = {} THEN <<>> ELSE SubSeq(s, MinOf(keep), MaxOf(keep))

\* string_find_partial_stop: where the longest suffix of str that is a prefix
\* of stop begins, or npos
string_find_partial_stop(str, stop) ==
    LET C == {n \in 1..Len(stop) :
                 /\ n <= Len(str)
                 /\ SubSeq(str, Len(str) - n + 1, Len(str)) = SubSeq(stop, 1, n)}
    IN  IF str = <<>> \/ C = {} THEN npos ELSE Len(str) - MaxOf(C)

\* common_regex::search for a regex that is a literal: a full match is the first
\* occurrence at or after pos; failing that, a partial match is the longest
\* suffix of the input, starting at or after pos, that is a proper prefix of it.
regex_match(regex, input, idx, C) ==
    IF idx # npos
    THEN [type |-> "FULL", groups |-> <<[begin |-> idx, end |-> idx + Len(regex)]>>]
    ELSE IF C # {}
    THEN [type |-> "PARTIAL",
          groups |-> <<[begin |-> Len(input) - MaxOf(C), end |-> Len(input)]>>]
    ELSE [type |-> "NONE", groups |-> <<>>]

regex_search(regex, input, pos) ==
    regex_match(regex, input, find(input, regex, pos),
                {n \in 1..(Len(regex) - 1) :
                    /\ Len(input) - n >= pos
                    /\ SubSeq(input, Len(input) - n + 1, Len(input)) = SubSeq(regex, 1, n)})

-----------------------------------------------------------------------------
(* The parser object and what a call gives back *)

Self ==
    [input_ |-> input_, is_partial_ |-> is_partial_, syntax_ |-> syntax_,
     pos_ |-> pos_, healing_marker_ |-> healing_marker_, result_ |-> result_]

EmptyMsg ==
    [role |-> "assistant", content |-> <<>>, reasoning_content |-> <<>>,
     tool_calls |-> <<>>]

Bool(b) == [kind |-> "bool", val |-> b]
None == [kind |-> "none"]
Some(prelude, groups) == [kind |-> "some", prelude |-> prelude, groups |-> groups]
Str(s) == [kind |-> "string", val |-> s]
Void == [kind |-> "void"]
Throws(what) == [kind |-> "throw", what |-> what]

Out(self, r) == [self |-> self, ret |-> r]

\* the call returned false or std::nullopt
Failed(r) == r.kind = "none" \/ (r.kind = "bool" /\ ~r.val)

-----------------------------------------------------------------------------
(* Message builder *)

add_content(self, content) ==
    [self EXCEPT !.result_.content = @ \o content]

add_reasoning_content(self, reasoning_content) ==
    [self EXCEPT !.result_.reasoning_content = @ \o reasoning_content]

-----------------------------------------------------------------------------
(* Cursor *)

move_to(self, pos) == [self EXCEPT !.pos_ = pos]

consume_spaces(self) ==
    LET stop == {i \in self.pos_..Len(self.input_) :
                    i = Len(self.input_) \/ ~isspace(self.input_[i + 1])}
        to   == MinOf(stop)
    IN  Out([self EXCEPT !.pos_ = to], Bool(to > self.pos_))

try_consume_literal(self, literal) ==
    IF MatchAt(self.input_, literal, self.pos_)
    THEN Out([self EXCEPT !.pos_ = self.pos_ + Len(literal)], Bool(TRUE))
    ELSE Out(self, Bool(FALSE))

\* try_find_literal where the literal is not in the input: partial_pos is what
\* string_find_partial_stop gave
literal_partial(self, partial_pos) ==
    IF partial_pos # npos /\ partial_pos >= self.pos_
    THEN Out(move_to(self, Len(self.input_)),
             Some(substr(self.input_, self.pos_, partial_pos - self.pos_),
                  <<[begin |-> partial_pos, end |-> Len(self.input_)]>>))
    ELSE Out(self, None)

\* try_find_literal, idx being what input_.find gave
literal_found(self, literal, idx) ==
    IF idx # npos
    THEN Out(move_to(self, idx + Len(literal)),
             Some(substr(self.input_, self.pos_, idx - self.pos_),
                  <<[begin |-> idx, end |-> idx + Len(literal)]>>))
    ELSE IF self.is_partial_
    THEN literal_partial(self, string_find_partial_stop(self.input_, literal))
    ELSE Out(self, None)

try_find_literal(self, literal) ==
    literal_found(self, literal, find(self.input_, literal, self.pos_))

consume_rest(self) ==
    Out([self EXCEPT !.pos_ = Len(self.input_)], Str(substr_from(self.input_, self.pos_)))

\* try_find_regex from the test of m.type on; moved is the parser after
\* pos_ = m.groups[0].end and the optional add_content(prelude)
regex_result(moved, is_partial, regex, m, prelude) ==
    IF m.type = "PARTIAL"
    THEN IF is_partial THEN Out(moved, Throws(regex)) ELSE Out(moved, None)
    ELSE Out(moved, Some(prelude, m.groups))

\* try_find_regex once the prelude is cut out
regex_prelude(self, regex, add_prelude_to_content, m, prelude) ==
    regex_result(IF add_prelude_to_content
                 THEN add_content(move_to(self, m.groups[1].end), prelude)
                 ELSE move_to(self, m.groups[1].end),
                 self.is_partial_, regex, m, prelude)

\* try_find_regex, m being what regex.search gave
regex_found(self, regex, add_prelude_to_content, m) ==
    IF m.type = "NONE" THEN Out(self, None)
    ELSE regex_prelude(self, regex, add_prelude_to_content, m,
                       substr(self.input_, self.pos_,
                              size_sub(m.groups[1].begin, self.pos_)))

try_find_regex(self, regex, from, add_prelude_to_content) ==
    regex_found(self, regex, add_prelude_to_content,
                regex_search(regex, self.input_, IF from = npos THEN self.pos_ ELSE from))

\* try_consume_regex, m being what regex.search gave
regex_consumed(self, regex, m) ==
    IF m.type = "NONE" THEN Out(self, None)
    ELSE IF m.type = "PARTIAL"
    THEN IF self.is_partial_ THEN Out(self, Throws(regex)) ELSE Out(self, None)
    ELSE IF m.groups[1].begin # self.pos_ THEN Out(self, None)
    ELSE Out(move_to(self, m.groups[1].end), Some(<<>>, m.groups))

try_consume_regex(self, regex) ==
    regex_consumed(self, regex, regex_search(regex, self.input_, self.pos_))

\* consume_literal, consumed being what try_consume_literal gave
literal_consumed(consumed, literal) ==
    IF consumed.ret.val THEN Out(consumed.self, Void)
    ELSE Out(consumed.self, Throws(literal))

consume_literal(self, literal) ==
    literal_consumed(try_consume_literal(self, literal), literal)

\* consume_regex, result being what try_consume_regex gave
regex_required(result, regex) ==
    IF result.ret.kind = "none" THEN Out(result.self, Throws(regex)) ELSE result

consume_regex(self, regex) == regex_required(try_consume_regex(self, regex), regex)

\* finish() without its test of is_partial_
finish_strict(self) ==
    IF self.pos_ # Len(self.input_)
    THEN Out(self, Throws(<<>>))
    ELSE Out(self, Void)

finish(self) ==
    IF ~self.is_partial_ /\ self.pos_ # Len(self.input_)
    THEN Out(self, Throws(<<>>))
    ELSE Out(self, Void)

-----------------------------------------------------------------------------
(* Reasoning *)

S_think == <<"<", "t", "h", "i", "n", "k", ">">>
S_end_think == <<"<", "/", "t", "h", "i", "n", "k", ">">>

\* handle_reasoning with reasoning_in_content, after the opening tag and the
\* stripped reasoning went to the content
reasoning_closed(self, end_think, closed) ==
    IF closed
    THEN add_content(self, IF self.syntax_.reasoning_format = "DEEPSEEK"
                           THEN S_end_think ELSE end_think)
    ELSE self

\* handle_reasoning, stripped_reasoning being what string_strip gave
reasoning_stripped(self, start_think, end_think, stripped_reasoning, closed) ==
    IF stripped_reasoning = <<>> THEN self
    ELSE IF self.syntax_.reasoning_in_content
    THEN reasoning_closed(
             add_content(add_content(self, IF self.syntax_.reasoning_format = "DEEPSEEK"
                                           THEN S_think ELSE start_think),
                         stripped_reasoning),
             end_think, closed)
    ELSE add_reasoning_content(self, stripped_reasoning)

\* the lambda handle_reasoning of try_parse_reasoning
handle_reasoning(self, start_think, end_think, reasoning, closed) ==
    reasoning_stripped(self, start_think, end_think, string_strip(reasoning), closed)

\* try_parse_reasoning refusing thinking that no end_think closes, unless it
\* was forced open
reasoning_unclosed_refused(rest, start_think, end_think) ==
    IF ~rest.self.syntax_.thinking_forced_open
    THEN Out(rest.self, Throws(end_think))
    ELSE IF rest.ret.val # <<>>
    THEN Out(handle_reasoning(rest.self, start_think, end_think, rest.ret.val,
                              ~rest.self.is_partial_),
             Bool(TRUE))
    ELSE Out(rest.self, Bool(TRUE))

\* try_parse_reasoning where end_think was not found: rest is what
\* consume_rest gave
reasoning_unclosed(rest, start_think, end_think) ==
    IF rest.ret.val # <<>>
    THEN Out(handle_reasoning(rest.self, start_think, end_think, rest.ret.val,
                              ~rest.self.is_partial_),
             Bool(TRUE))
    ELSE Out(rest.self, Bool(TRUE))

\* try_parse_reasoning after the opening: res is what try_find_literal(end_think)
\* gave
reasoning_found(res, start_think, end_think) ==
    IF res.ret.kind = "some"
    THEN Out(consume_spaces(handle_reasoning(res.self, start_think, end_think,
                                             res.ret.prelude, TRUE)).self,
             Bool(TRUE))
    ELSE reasoning_unclosed(consume_rest(res.self), start_think, end_think)

\* try_parse_reasoning once the thinking is open
reasoning_open(self, start_think, end_think) ==
    reasoning_found(try_find_literal(self, end_think), start_think, end_think)

\* started is what try_consume_literal(start_think) gave
reasoning_started(started, start_think, end_think) ==
    IF started.ret.val THEN reasoning_open(started.self, start_think, end_think)
    ELSE Out(started.self, Bool(FALSE))

try_parse_reasoning(self, start_think, end_think) ==
    IF self.syntax_.reasoning_format = "NONE" THEN Out(self, Bool(FALSE))
    ELSE IF self.syntax_.thinking_forced_open
    THEN reasoning_open(self, start_think, end_think)
    ELSE reasoning_started(try_consume_literal(self, start_think), start_think, end_think)

-----------------------------------------------------------------------------
(* nlohmann::ordered_json, as far as the XML tool-call parser uses it *)

\* "BAD" stands for a byte that is not valid UTF-8.
JNull == [t |-> "null"]
JBool(b) == [t |-> "boolean", v |-> b]
JInt(digits) == [t |-> "integer", v |-> digits]     \* v: the canonical decimal text
JFloat(src) == [t |-> "float", v |-> src]           \* v: see float_text
JString(s) == [t |-> "string", v |-> s]

\* the characters dump() writes for one character of a string
escape_char(c) ==
    CASE c = "\"" -> <<"\\", "\"">>
      [] c = "\\" -> <<"\\", "\\">>
      [] c = "\n" -> <<"\\", "n">>
      [] c = "\t" -> <<"\\", "t">>
      [] c = "\r" -> <<"\\", "r">>
      [] c = "\f" -> <<"\\", "f">>
      [] OTHER -> <<c>>

RECURSIVE escape_string(_)
escape_string(s) ==
    IF s = <<>> THEN <<>> ELSE escape_char(Head(s)) \o escape_string(Tail(s))

\* json(s).dump() of a string: throws type_error 316 on invalid UTF-8
dump_string(s) ==
    IF \E i \in 1..Len(s) : s[i] = "BAD"
    THEN [ok |-> FALSE, text |-> <<>>]
    ELSE [ok |-> TRUE, text |-> <<"\"">> \o escape_string(s) \o <<"\"">>]

dump_value(j) ==
    CASE j.t = "null" -> [ok |-> TRUE, text |-> <<"n", "u", "l", "l">>]
      [] j.t = "boolean" ->
            [ok |-> TRUE,
             text |-> IF j.v THEN <<"t", "r", "u", "e">> ELSE <<"f", "a", "l", "s", "e">>]
      [] j.t = "integer" -> [ok |-> TRUE, text |-> j.v]
      [] j.t = "float" -> [ok |-> TRUE, text |-> j.v]
      [] j.t = "string" -> dump_string(j.v)

\* the characters a JSON string literal's escapes stand for
unescape_char(c) ==
    CASE c = "n" -> "\n"
      [] c = "t" -> "\t"
      [] c = "r" -> "\r"
      [] c = "f" -> "\f"
      [] OTHER -> c

\* the lexer's scan of a string literal's body: s from offset i on
RECURSIVE unescape_from(_, _)
unescape_from(s, i) ==
    IF i > Len(s) THEN [ok |-> TRUE, v |-> <<>>]
    ELSE IF s[i] = "\\"
    THEN IF i < Len(s) /\ s[i + 1] \in {"\"", "\\", "/", "n", "t", "r", "f", "b"}
         THEN LET rest == unescape_from(s, i + 2)
              IN  [ok |-> rest.ok, v |-> <<unescape_char(s[i + 1])>> \o rest.v]
         ELSE [ok |-> FALSE, v |-> <<>>]
    ELSE IF s[i] \in {"\"", "\n", "\t", "\r", "\f", "BAD"}
    THEN [ok |-> FALSE, v |-> <<>>]
    ELSE LET rest == unescape_from(s, i + 1)
         IN  [ok |-> rest.ok, v |-> <<s[i]>> \o rest.v]

DigitChars == {"0", "1", "2", "3", "4", "5", "6", "7", "8", "9"}

\* a JSON integer literal: -?(0|[1-9][0-9]*)
is_json_integer(s) ==
    LET body == IF s # <<>> /\ s[1] = "-" THEN Tail(s) ELSE s
    IN  /\ body # <<>>
        /\ \A i \in 1..Len(body) : body[i] \in DigitChars
        /\ (Len(body) > 1 => body[1] # "0")

JsonSpace == {" ", "\t", "\n", "\r"}

\* json::parse of a text holding one scalar; ok is false where it throws.
\* Arrays, objects, fractions, exponents and \u escapes lie outside the texts
\* the model draws.
json_string(body) ==
    IF body.ok THEN [ok |-> TRUE, j |-> JString(body.v)] ELSE [ok |-> FALSE, j |-> JNull]

\* the value of the scalar s, s having no whitespace around it
json_scalar(s) ==
    IF s = <<"n", "u", "l", "l">> THEN [ok |-> TRUE, j |-> JNull]
    ELSE IF s = <<"t", "r", "u", "e">> THEN [ok |-> TRUE, j |-> JBool(TRUE)]
    ELSE IF s = <<"f", "a", "l", "s", "e">> THEN [ok |-> TRUE, j |-> JBool(FALSE)]
    ELSE IF is_json_integer(s)
    THEN [ok |-> TRUE, j |-> JInt(IF s = <<"-", "0">> THEN <<"0">> ELSE s)]
    ELSE IF s # <<>> /\ s[1] = "%f" THEN [ok |-> TRUE, j |-> JFloat(s)]
    ELSE IF Len(s) >= 2 /\ s[1] = "\"" /\ s[Len(s)] = "\""
    THEN json_string(unescape_from(SubSeq(s, 2, Len(s) - 1), 1))
    ELSE [ok |-> FALSE, j |-> JNull]

\* txt from offset a on, without its trailing whitespace
json_token(txt, a) ==
    IF a = npos THEN <<>> ELSE SubSeq(txt, a + 1, find_last_not_of(txt, JsonSpace) + 1)

json_parse(txt) == json_scalar(json_token(txt, find_first_not_of(txt, JsonSpace)))

\* arguments[key] = value on an ordered object: a sequence of <<key, value>>
object_set(obj, key, value) ==
    IF \E i \in 1..Len(obj) : obj[i][1] = key
    THEN [i \in 1..Len(obj) |-> IF obj[i][1] = key THEN <<key, value>> ELSE obj[i]]
    ELSE Append(obj, <<key, value>>)

\* the dump of members lo..hi of an object, comma separated
dump_joined(left, sep, right) ==
    [ok |-> left.ok /\ right.ok, text |-> left.text \o sep \o right.text]

RECURSIVE dump_members(_, _, _)
dump_members(obj, lo, hi) ==
    IF lo > hi THEN [ok |-> TRUE, text |-> <<>>]
    ELSE IF lo = hi
    THEN dump_joined(dump_string(obj[lo][1]), <<":">>, dump_value(obj[lo][2]))
    ELSE dump_joined(dump_members(obj, lo, (lo + hi) \div 2), <<",">>,
                     dump_members(obj, ((lo + hi) \div 2) + 1, hi))

dump_braced(m) == [ok |-> m.ok, text |-> <<"{">> \o m.text \o <<"}">>]

\* arguments.dump()
dump_object(obj) == dump_braced(dump_members(obj, 1, Len(obj)))

-----------------------------------------------------------------------------
(* Message builder: tool calls *)

\* add_tool_call without its test of the name
add_tool_call_unchecked(self, name, id, arguments) ==
    Out([self EXCEPT !.result_.tool_calls =
                        Append(@, [name |-> name, arguments |-> arguments, id |-> id])],
        Bool(TRUE))

add_tool_call(self, name, id, arguments) ==
    IF name = <<>>
    THEN Out(self, Bool(FALSE))
    ELSE Out([self EXCEPT !.result_.tool_calls =
                             Append(@, [name |-> name, arguments |-> arguments, id |-> id])],
             Bool(TRUE))

\* tool_call.contains(key) ? tool_call.at(key) : ""  (a JSON object of strings
\* is a function from its keys)
string_or_empty(tool_call, key) ==
    IF key \in DOMAIN tool_call THEN tool_call[key] ELSE <<>>

add_tool_call_json(self, tool_call) ==
    add_tool_call(self, string_or_empty(tool_call, "name"),
                  string_or_empty(tool_call, "id"),
                  string_or_empty(tool_call, "arguments"))

\* the loop of add_tool_calls from element i on
RECURSIVE add_tool_calls_from(_, _, _)
\* the loop's body after add_tool_call(arr[i]) gave one
add_tool_calls_after(one, arr, i) ==
    IF ~one.ret.val THEN Out(one.self, Bool(FALSE))
    ELSE add_tool_calls_from(one.self, arr, i + 1)

add_tool_calls_from(self, arr, i) ==
    IF i > Len(arr) THEN Out(self, Bool(TRUE))
    ELSE add_tool_calls_after(add_tool_call_json(self, arr[i]), arr, i)

add_tool_calls(self, arr) == add_tool_calls_from(self, arr, 1)

clear_tools(self) == Out([self EXCEPT !.result_.tool_calls = <<>>], Void)

-----------------------------------------------------------------------------
(* Qwen3-Coder XML tool-call parser *)

MAX_INPUT_SIZE == 1048576
MAX_PARAMETER_COUNT == 100
MAX_TAG_NAME_LENGTH == 256
MAX_ATTRIBUTE_LENGTH == 1024
CONTEXT_LENGTH == 100

\* XmlParseError without its message, which is built from the same values
set_error(type, position, context) ==
    [type |-> type, position |-> position, context |-> context]

has_error(error) == error.type # "NONE"

NoTag == [found |-> FALSE]

XmlTag(name, attribute, content, start_pos, end_pos) ==
    [found |-> TRUE, name |-> name, attribute |-> attribute, content |-> content,
     start_pos |-> start_pos, end_pos |-> end_pos]

\* the first offset in from..(limit - 1) whose character is no whitespace, or limit
skip_spaces(txt, from, limit) ==
    LET C == {i \in from..limit : i = limit \/ ~isspace(txt[i + 1])}
    IN  MinOf(C)

\* the least end in from..limit such that txt[from..end) ends with no
\* whitespace (from itself if all of it is whitespace)
trim_end(txt, from, limit) ==
    LET C == {e \in from..limit : e = from \/ ~isspace(txt[e])}
    IN  MaxOf(C)

NoAttribute == [begin |-> 0, end |-> 0]

\* the attribute that opens with a quote at attr_start, quote_end being where
\* text.find gave the closing quote
quoted_attribute(attr_start, open_end, quote_end) ==
    IF quote_end # npos /\ quote_end < open_end
    THEN [begin |-> attr_start + 1, end |-> quote_end]
    ELSE [begin |-> attr_start, end |-> open_end]

\* the attribute whose text begins at attr_start
attribute_at(txt, attr_start, open_end) ==
    IF ~(attr_start < open_end) THEN NoAttribute
    ELSE IF txt[attr_start + 1] \in {"\"", "'"}
    THEN quoted_attribute(attr_start, open_end,
                          find(txt, <<txt[attr_start + 1]>>, attr_start + 1))
    ELSE [begin |-> attr_start, end |-> trim_end(txt, attr_start, open_end)]

\* the attribute after the '=' that text.find gave at eq_pos
attribute_after(txt, eq_pos, open_end) ==
    IF ~(eq_pos # npos /\ eq_pos < open_end) THEN NoAttribute
    ELSE attribute_at(txt, skip_spaces(txt, eq_pos + 1, open_end), open_end)

\* the attribute of the opening tag at open_pos..open_end: [begin, end) of the
\* attribute's text, begin = end when there is none
attribute_range(txt, tag_name, open_pos, open_end) ==
    IF ~(open_pos + 1 + Len(tag_name) < open_end) THEN NoAttribute
    ELSE attribute_after(txt, find(txt, <<"=">>, open_pos + 1 + Len(tag_name)), open_end)

Missing(error) == [tag |-> NoTag, error |-> error]

\* find_xml_tag from the search of the closing tag on
tag_closed(txt, tag_name, open_pos, open_end, attr, close_pos, error) ==
    IF close_pos = npos THEN Missing(error)
    ELSE [tag |-> XmlTag(tag_name, SubSeq(txt, attr.begin + 1, attr.end),
                         SubSeq(txt, open_end + 2, close_pos),
                         open_pos, close_pos + Len(tag_name) + 3),
          error |-> error]

\* find_xml_tag from the test of the attribute's length on
tag_attributed(txt, tag_name, open_pos, open_end, attr, error) ==
    IF attr.end - attr.begin > MAX_ATTRIBUTE_LENGTH
    THEN Missing(set_error("ATTRIBUTE_TOO_LONG", open_pos,
                           substr(txt, attr.begin, CONTEXT_LENGTH)))
    ELSE tag_closed(txt, tag_name, open_pos, open_end, attr,
                    find(txt, <<"<", "/">> \o tag_name \o <<">">>, open_end + 1), error)

\* find_xml_tag from the end of the opening tag on
tag_opened(txt, tag_name, open_pos, open_end, error) ==
    IF open_end = npos THEN Missing(error)
    ELSE tag_attributed(txt, tag_name, open_pos, open_end,
                        attribute_range(txt, tag_name, open_pos, open_end), error)

\* one turn of the loop without the test of the character after the name
tag_at_any(txt, tag_name, open_pos, error) ==
    IF open_pos = npos THEN Missing(error)
    ELSE tag_opened(txt, tag_name, open_pos, find(txt, <<">">>, open_pos), error)

\* the while loop of find_xml_tag from search_pos on
RECURSIVE find_xml_tag_from(_, _, _, _)

\* one turn of the loop, open_pos being where text.find gave the opening tag
tag_at(txt, tag_name, open_pos, error) ==
    LET check_pos == open_pos + 1 + Len(tag_name)
    IN  IF open_pos = npos THEN Missing(error)
        ELSE IF /\ check_pos < Len(txt)
                /\ txt[check_pos + 1] \notin {">", "="}
                /\ ~isspace(txt[check_pos + 1])
        THEN find_xml_tag_from(txt, tag_name, open_pos + 1, error)
        ELSE tag_opened(txt, tag_name, open_pos, find(txt, <<">">>, open_pos), error)

find_xml_tag_from(txt, tag_name, search_pos, error) ==
    IF ~(search_pos < Len(txt)) THEN Missing(error)
    ELSE tag_at(txt, tag_name, find(txt, <<"<">> \o tag_name, search_pos), error)

find_xml_tag(txt, tag_name, start_pos, error) ==
    IF Len(txt) > MAX_INPUT_SIZE
    THEN Missing(set_error("INPUT_TOO_LARGE", 0, substr(txt, 0, CONTEXT_LENGTH)))
    ELSE IF Len(tag_name) > MAX_TAG_NAME_LENGTH
    THEN Missing(set_error("TAG_NAME_TOO_LONG", 0, tag_name))
    ELSE IF start_pos >= Len(txt) THEN Missing(error)
    ELSE find_xml_tag_from(txt, tag_name, start_pos, error)

\* the state of find_all_xml_tags's loop
FindAllStart(error) ==
    [tags |-> <<>>, pos |-> 0, tag_count |-> 0, error |-> error, done |-> FALSE]

\* the loop's body, r being what find_xml_tag gave
find_all_found(st, r) ==
    IF ~r.tag.found THEN [st EXCEPT !.done = TRUE, !.error = r.error]
    ELSE [st EXCEPT !.tags = Append(@, r.tag), !.pos = r.tag.end_pos,
                    !.tag_count = @ + 1]

\* one turn of find_all_xml_tags's loop
find_all_step(txt, tag_name, st) ==
    IF st.done \/ ~(st.pos < Len(txt) /\ st.tag_count < MAX_PARAMETER_COUNT)
    THEN [st EXCEPT !.done = TRUE]
    ELSE find_all_found(st, find_xml_tag(txt, tag_name, st.pos, st.error))

\* n turns of the loop (halved, to keep the evaluation shallow)
RECURSIVE find_all_loop(_, _, _, _)
find_all_loop(txt, tag_name, st, n) ==
    IF n = 0 \/ st.done THEN st
    ELSE IF n = 1 THEN find_all_step(txt, tag_name, st)
    ELSE find_all_loop(txt, tag_name,
                       find_all_loop(txt, tag_name, st, n \div 2), n - (n \div 2))

\* what find_all_xml_tags does after its loop: the test of tag_count
find_all_counted(txt, st) ==
    [tags  |-> st.tags,
     error |-> IF st.tag_count >= MAX_PARAMETER_COUNT
               THEN set_error("TOO_MANY_PARAMETERS", st.pos,
                              substr(txt, st.pos, CONTEXT_LENGTH))
               ELSE st.error]

find_all_xml_tags(txt, tag_name, error) ==
    find_all_counted(txt, find_all_loop(txt, tag_name, FindAllStart(error),
                                        MAX_PARAMETER_COUNT))

TrimSet == {" ", "\t", "\n", "\r"}

\* trim_whitespace, start being what find_first_not_of gave
trim_from(str, start) ==
    IF start = npos THEN <<>>
    ELSE substr(str, start, find_last_not_of(str, TrimSet) - start + 1)

trim_whitespace(str) == trim_from(str, find_first_not_of(str, TrimSet))

digit_value(c) == CHOOSE d \in 0..9 : Digits[d + 1] = c

\* a <= b for decimal texts without leading zeros
decimal_leq(a, b) ==
    \/ Len(a) < Len(b)
    \/ /\ Len(a) = Len(b)
       /\ \/ a = b
          \/ \E i \in 1..Len(a) :
                /\ \A j \in 1..(i - 1) : a[j] = b[j]
                /\ digit_value(a[i]) < digit_value(b[i])

INT_MAX_TEXT == <<"2", "1", "4", "7", "4", "8", "3", "6", "4", "7">>
INT_MIN_TEXT == <<"2", "1", "4", "7", "4", "8", "3", "6", "4", "8">>
LLONG_MAX_TEXT ==
    <<"9", "2", "2", "3", "3", "7", "2", "0", "3", "6", "8", "5", "4", "7", "7", "5",
      "8", "0", "7">>
LLONG_MIN_TEXT ==
    <<"9", "2", "2", "3", "3", "7", "2", "0", "3", "6", "8", "5", "4", "7", "7", "5",
      "8", "0", "8">>

\* digits without its leading zeros
magnitude(digits, nonzero) ==
    IF nonzero = {} THEN <<"0">> ELSE SubSeq(digits, MinOf(nonzero), Len(digits))

stoll_value(neg, digits, mag) ==
    IF digits = <<>> THEN [ok |-> FALSE, neg |-> FALSE, mag |-> <<>>]
    ELSE IF ~decimal_leq(mag, IF neg THEN LLONG_MIN_TEXT ELSE LLONG_MAX_TEXT)
    THEN [ok |-> FALSE, neg |-> neg, mag |-> mag]
    ELSE [ok |-> TRUE, neg |-> neg, mag |-> mag]

stoll_digits(neg, digits) ==
    stoll_value(neg, digits,
                magnitude(digits, {i \in 1..Len(digits) : digits[i] # "0"}))

\* the digits of str from offset first on
stoll_run(str, neg, first) ==
    stoll_digits(neg,
                 SubSeq(str, first + 1,
                        MinOf({i \in first..Len(str) :
                                  i = Len(str) \/ str[i + 1] \notin DigitChars})))

stoll_signed(str, start, signed) ==
    stoll_run(str, signed /\ str[start + 1] = "-", IF signed THEN start + 1 ELSE start)

stoll_at(str, start) ==
    stoll_signed(str, start, start < Len(str) /\ str[start + 1] \in {"+", "-"})

\* std::stoll: whitespace, a sign, then the longest run of digits; what follows
\* the digits is ignored.  [ok, neg, magnitude without leading zeros]; ok is
\* false where it throws.
stoll(str) == stoll_at(str, skip_spaces(str, 0, Len(str)))

\* safe_parse_int without its test of the range of int
int_of_unchecked(temp) ==
    IF ~temp.ok THEN [ok |-> FALSE, text |-> <<>>]
    ELSE [ok |-> TRUE,
          text |-> IF temp.neg /\ temp.mag # <<"0">> THEN <<"-">> \o temp.mag
                   ELSE temp.mag]

\* safe_parse_int, temp being what std::stoll gave
int_of(temp) ==
    IF ~temp.ok THEN [ok |-> FALSE, text |-> <<>>]
    ELSE IF ~decimal_leq(temp.mag, IF temp.neg THEN INT_MIN_TEXT ELSE INT_MAX_TEXT)
    THEN [ok |-> FALSE, text |-> <<>>]
    ELSE [ok |-> TRUE,
          text |-> IF temp.neg /\ temp.mag # <<"0">> THEN <<"-">> \o temp.mag
                   ELSE temp.mag]

\* safe_parse_int: [ok, text of std::to_string(result)]
safe_parse_int(str) == int_of(stoll(str))

\* whether std::stod reads a number at the start of str.  The texts the model
\* draws hold no '.', no exponent, no "inf" and no "nan": a decimal integer.
stod_reads(str) == stoll(str).mag # <<>>

float_of(n) == <<"%f">> \o (IF n.neg THEN <<"-">> ELSE <<>>) \o n.mag

\* std::to_string(float_val): "%f" followed by the integer read stands for the
\* %f rendering of the float nearest to it.
float_text(str) == float_of(stoll(str))

StringTypes == {"string", "str", "text"}
IntegerTypes == {"integer", "int"}
NumberTypes == {"number", "float"}
BooleanTypes == {"boolean", "bool"}
JsonTypes == {"object", "array"}

S_null == <<"n", "u", "l", "l">>
S_true == <<"t", "r", "u", "e">>
S_false == <<"f", "a", "l", "s", "e">>

Text(t) == [thrown |-> FALSE, text |-> t]
Thrown == [thrown |-> TRUE, text |-> <<>>]

dump_text(d) == IF d.ok THEN Text(d.text) ELSE Thrown

\* json(trimmed_value).dump(), which throws where the dump does
dumped(trimmed_value) == dump_text(dump_string(trimmed_value))

\* the tail of the type inference: float, boolean, string
infer_rest(trimmed_value) ==
    IF stod_reads(trimmed_value) THEN Text(float_text(trimmed_value))
    ELSE IF trimmed_value \in {S_true, S_false} THEN Text(trimmed_value)
    ELSE dumped(trimmed_value)

infer_int(trimmed_value, int) ==
    IF int.ok THEN Text(int.text) ELSE infer_rest(trimmed_value)

infer_parsed(trimmed_value, parsed) ==
    IF parsed.ok THEN Text(dump_value(parsed.j).text)
    ELSE infer_int(trimmed_value, safe_parse_int(trimmed_value))

\* the type inference of convert_qwen3_param_value, used without a schema
infer_value(trimmed_value) == infer_parsed(trimmed_value, json_parse(trimmed_value))

\* convert_qwen3_param_value quoting the value by hand
convert_naive_quotes(param_value, param_name, param_config) ==
    Text(<<"\"">> \o trim_whitespace(param_value) \o <<"\"">>)

\* param_config: a function from the names of the declared parameters to the
\* declared type, "" where the declaration has no "type".
as_integer(trimmed_value, int) ==
    IF int.ok THEN Text(int.text) ELSE dumped(trimmed_value)

as_json(trimmed_value, parsed) ==
    IF parsed.ok THEN Text(dump_value(parsed.j).text) ELSE dumped(trimmed_value)

\* convert_qwen3_param_value for a parameter the schema declares with param_type
convert_declared(trimmed_value, param_type) ==
    IF param_type \in StringTypes THEN dumped(trimmed_value)
    ELSE IF param_type \in IntegerTypes
    THEN as_integer(trimmed_value, safe_parse_int(trimmed_value))
    ELSE IF param_type \in NumberTypes
    THEN IF stod_reads(trimmed_value) THEN Text(float_text(trimmed_value))
         ELSE dumped(trimmed_value)
    ELSE IF param_type \in BooleanTypes
    THEN IF trimmed_value \in {S_true, S_false} THEN Text(trimmed_value)
         ELSE Text(S_false)
    ELSE IF param_type \in JsonTypes
    THEN as_json(trimmed_value, json_parse(trimmed_value))
    ELSE infer_value(trimmed_value)

convert_trimmed(trimmed_value, param_name, param_config) ==
    IF trimmed_value = S_null THEN Text(S_null)
    ELSE IF param_name \in DOMAIN param_config
    THEN convert_declared(trimmed_value,
                          IF param_config[param_name] # ""
                          THEN param_config[param_name] ELSE "string")
    ELSE infer_value(trimmed_value)

convert_qwen3_param_value(param_value, param_name, param_config) ==
    convert_trimmed(trim_whitespace(param_value), param_name, param_config)

\* get_param_config: the declared parameters of the first tool named func_name
get_param_config(func_name, tools) ==
    LET hits == {i \in 1..Len(tools) : tools[i].name = func_name}
    IN  IF hits = {} THEN << >> ELSE tools[MinOf(hits)].parameters

S_tool_call == <<"t", "o", "o", "l", "_", "c", "a", "l", "l">>
S_function == <<"f", "u", "n", "c", "t", "i", "o", "n">>
S_parameter == <<"p", "a", "r", "a", "m", "e", "t", "e", "r">>

\* the state of the loop over parameter_tags
ParamStart(error) ==
    [arguments |-> <<>>, param_count |-> 0, error |-> error, broke |-> FALSE]

\* the catch block of the loop over parameter_tags
param_failed(param_tag, param_name, at, st) ==
    [st EXCEPT !.arguments =
                   object_set(@, param_name, JString(trim_whitespace(param_tag.content))),
               !.param_count = @ + 1,
               !.error = set_error("PARAMETER_CONVERSION_FAILED",
                                   at + param_tag.start_pos,
                                   param_name \o <<"=">> \o param_tag.content)]

\* arguments[param_name] = json::parse(converted_value)
param_parsed(param_tag, param_name, parsed, at, st) ==
    IF parsed.ok
    THEN [st EXCEPT !.arguments = object_set(@, param_name, parsed.j),
                    !.param_count = @ + 1]
    ELSE param_failed(param_tag, param_name, at, st)

\* the try block, converted being what convert_qwen3_param_value gave
param_converted(param_tag, param_name, converted, at, st) ==
    IF converted.thrown THEN param_failed(param_tag, param_name, at, st)
    ELSE param_parsed(param_tag, param_name, json_parse(converted.text), at, st)

\* the loop's body from the test of param_name on
param_named(param_tag, param_name, param_config, at, st) ==
    IF param_name = <<>> \/ Len(param_name) > MAX_TAG_NAME_LENGTH THEN st
    ELSE param_converted(param_tag, param_name,
                         convert_qwen3_param_value(param_tag.content, param_name,
                                                   param_config),
                         at, st)

\* one turn of the loop over parameter_tags; at is the offset of the function
\* tag in content
param_step(param_tag, param_config, at, function_name, st) ==
    IF st.broke THEN st
    ELSE IF st.param_count >= MAX_PARAMETER_COUNT
    THEN [st EXCEPT !.broke = TRUE,
                    !.error = set_error("TOO_MANY_PARAMETERS", at, function_name)]
    ELSE IF param_tag.attribute = <<>> THEN st
    ELSE param_named(param_tag, trim_whitespace(param_tag.attribute), param_config,
                     at, st)

\* the loop over parameter_tags[lo..hi] (halved, to keep the evaluation shallow)
RECURSIVE param_loop(_, _, _, _, _, _, _)
param_loop(tags, param_config, at, function_name, st, lo, hi) ==
    IF lo > hi THEN st
    ELSE IF lo = hi THEN param_step(tags[lo], param_config, at, function_name, st)
    ELSE param_loop(tags, param_config, at, function_name,
                    param_loop(tags, param_config, at, function_name, st,
                               lo, (lo + hi) \div 2),
                    ((lo + hi) \div 2) + 1, hi)

\* the whitelist test with every name let through
function_is_known_always(function_name, tools) == TRUE

\* the whitelist test: no tools, or a tool of that name
function_is_known(function_name, tools) ==
    LET valid_functions == {tools[i].name : i \in 1..Len(tools)}
    IN  tools = <<>> \/ function_name \in valid_functions

XmlOut(self, val, error) == [self |-> self, ret |-> Bool(val), error |-> error]

\* the end of parse_qwen3_xml_tool_call: add_tool_call(function_name, "", args_json)
parse_added(added, error) == XmlOut(added.self, added.ret.val, error)

\* the try block around arguments.dump()
parse_dumped(self, tool_call_tag, function_name, error, args_json) ==
    IF ~args_json.ok
    THEN XmlOut(self, FALSE,
                set_error("JSON_SERIALIZATION_FAILED", tool_call_tag.start_pos,
                          function_name))
    ELSE parse_added(add_tool_call(self, function_name, <<>>, args_json.text), error)

\* looped is the state the loop over parameter_tags ends in
parse_looped(self, tool_call_tag, function_name, looped) ==
    parse_dumped(self, tool_call_tag, function_name, looped.error,
                 dump_object(looped.arguments))

\* found is what find_all_xml_tags gave
parse_parameters(self, tool_call_tag, at, function_name, param_config, found) ==
    IF has_error(found.error) THEN XmlOut(self, FALSE, found.error)
    ELSE parse_looped(self, tool_call_tag, function_name,
                      param_loop(found.tags, param_config, at, function_name,
                                 ParamStart(found.error), 1, Len(found.tags)))

\* from the validation of function_name on; at is the offset of the function
\* tag in content
parse_named(self, tool_call_tag, r2, at, function_name, tools) ==
    IF function_name = <<>> \/ Len(function_name) > MAX_TAG_NAME_LENGTH
    THEN XmlOut(self, FALSE, set_error("INVALID_FUNCTION_NAME", at, function_name))
    ELSE IF ~function_is_known(function_name, tools)
    THEN XmlOut(self, FALSE, set_error("FUNCTION_NOT_FOUND", at, function_name))
    ELSE parse_parameters(self, tool_call_tag, at, function_name,
                          get_param_config(function_name, tools),
                          find_all_xml_tags(r2.tag.content, S_parameter, r2.error))

\* r2 is what find_xml_tag gave for "function" in the tool call's content
parse_function(self, tool_call_tag, r2, tools) ==
    IF ~r2.tag.found \/ r2.tag.attribute = <<>>
    THEN XmlOut(self, FALSE,
                IF has_error(r2.error) THEN r2.error
                ELSE set_error("INVALID_XML_STRUCTURE", tool_call_tag.start_pos,
                               substr(tool_call_tag.content, 0, CONTEXT_LENGTH)))
    ELSE parse_named(self, tool_call_tag, r2,
                     tool_call_tag.start_pos + r2.tag.start_pos,
                     trim_whitespace(r2.tag.attribute), tools)

\* content_before trimming the text it adds
content_before_trimmed(self, content, tool_call_tag) ==
    IF tool_call_tag.start_pos > 0 /\ tool_call_tag.start_pos <= Len(content)
    THEN add_content(self, trim_whitespace(substr(content, 0, tool_call_tag.start_pos)))
    ELSE self

\* the content before the tool call goes to the message
content_before(self, content, tool_call_tag) ==
    IF tool_call_tag.start_pos > 0 /\ tool_call_tag.start_pos <= Len(content)
    THEN add_content(self, substr(content, 0, tool_call_tag.start_pos))
    ELSE self

\* r1 is what find_xml_tag gave for "tool_call" in content
parse_tool_call(self, content, r1, tools) ==
    IF ~r1.tag.found
    THEN XmlOut(self, FALSE,
                IF has_error(r1.error) THEN r1.error
                ELSE set_error("INVALID_XML_STRUCTURE", 0,
                               substr(content, 0, CONTEXT_LENGTH)))
    ELSE parse_function(content_before(self, content, r1.tag), r1.tag,
                        find_xml_tag(r1.tag.content, S_function, 0, r1.error), tools)

\* parse_qwen3_xml_tool_call(content, tools, error); tools is a sequence of
\* [name, parameters], parameters being what get_param_config reads from the
\* tool's schema.
parse_qwen3_xml_tool_call(self, content, tools) ==
    IF Len(content) > MAX_INPUT_SIZE
    THEN XmlOut(self, FALSE,
                set_error("INPUT_TOO_LARGE", 0, substr(content, 0, CONTEXT_LENGTH)))
    ELSE IF Len(tools) > MAX_PARAMETER_COUNT
    THEN XmlOut(self, FALSE, set_error("TOO_MANY_TOOLS", 0, <<>>))
    ELSE parse_tool_call(self, content,
                         find_xml_tag(content, S_tool_call, 0, set_error("NONE", 0, <<>>)),
                         tools)

-----------------------------------------------------------------------------
(* Construction *)

\* the constructor taking the first id it draws
marker_unchecked(input, id) == TRUE

\* the test of the constructor's loop: the candidate id is not in the input
marker_is_free(input, id) == find(input, id, 0) = npos

NoSyntax ==
    [reasoning_format |-> "NONE", reasoning_in_content |-> FALSE,
     thinking_forced_open |-> FALSE]

NoError == set_error("NONE", 0, <<>>)

NoCall == [kind |-> "void"]

\* The state when the constructor is entered with (input, is_partial, syntax).
Constructing(input, is_partial, syntax) ==
    /\ input_ = input
    /\ is_partial_ = is_partial
    /\ syntax_ = syntax
    /\ pos_ = 0
    /\ healing_marker_ = <<>>
    /\ result_ = EmptyMsg
    /\ last_xml_error_ = NoError
    /\ pc = "constructing"
    /\ op = "none"
    /\ args = NoCall
    /\ ret = Void
    /\ pre = [pos_ |-> 0, result_ |-> EmptyMsg]

\* One turn of the constructor's loop, std::rand() giving r.
Construct(r) ==
    /\ pc = "constructing"
    /\ LET id == to_string(r)
       IN  IF marker_is_free(input_, id)
           THEN healing_marker_' = id /\ pc' = "ready"
           ELSE UNCHANGED <<healing_marker_, pc>>
    /\ UNCHANGED <<input_, is_partial_, syntax_, pos_, result_, last_xml_error_,
                   op, args, ret, pre, text, prior>>

\* A member function called on the constructed parser: out is what it gives.
\* The caller then holds the outcome ("called") until it goes on (Resume).
Call(name, a, out) ==
    /\ pc = "ready"
    /\ pc' = "called"
    /\ op' = name
    /\ args' = a
    /\ ret' = out.ret
    /\ pre' = [pos_ |-> pos_, result_ |-> result_]
    /\ pos_' = out.self.pos_
    /\ result_' = out.self.result_
    /\ UNCHANGED <<input_, is_partial_, syntax_, healing_marker_, last_xml_error_,
                   text, prior>>

\* The caller drops the outcome of its last call and is free to call again.
Resume ==
    /\ pc = "called"
    /\ pc' = "ready"
    /\ op' = "none"
    /\ args' = NoCall
    /\ ret' = Void
    /\ pre' = [pos_ |-> 0, result_ |-> EmptyMsg]
    /\ UNCHANGED <<input_, is_partial_, syntax_, pos_, healing_marker_, result_,
                   last_xml_error_, text, prior>>

Constructed == pc # "constructing"

-----------------------------------------------------------------------------
(* The cursor, driven by an arbitrary caller *)

MaxLen == 3
RandBound == 2
MaxContent == 2

RECURSIVE SeqsUpTo(_, _)
SeqsUpTo(A, n) ==
    IF n = 0 THEN {<<>>}
    ELSE LET shorter == SeqsUpTo(A, n - 1)
         IN  shorter \cup {Append(s, c) : s \in {t \in shorter : Len(t) = n - 1}, c \in A}

CursorAlphabet == {"a", "b", " ", "1"}
CursorInputs == SeqsUpTo(CursorAlphabet, MaxLen)
Literals == {<<"a", "b">>, <<" ">>}
Regexes == {<<"a", "b">>, <<"b">>}

InitCursor ==
    /\ \E input \in CursorInputs, is_partial \in BOOLEAN :
          Constructing(input, is_partial, NoSyntax)
    /\ text = <<>>
    /\ prior = EmptyMsg

ConsumeSpaces == Call("consume_spaces", NoCall, consume_spaces(Self))

TryConsumeLiteral ==
    \E literal \in Literals :
        Call("try_consume_literal", [literal |-> literal], try_consume_literal(Self, literal))

TryFindLiteral ==
    \E literal \in Literals :
        Call("try_find_literal", [literal |-> literal], try_find_literal(Self, literal))

TryFindRegex ==
    \E regex \in Regexes, from \in {npos} \cup 0..Len(input_), add \in BOOLEAN :
        /\ Len(result_.content) < MaxContent
        /\ Call("try_find_regex",
                [regex |-> regex, from |-> from, add_prelude_to_content |-> add],
                try_find_regex(Self, regex, from, add))

TryConsumeRegex ==
    \E regex \in Regexes :
        Call("try_consume_regex", [regex |-> regex], try_consume_regex(Self, regex))

ConsumeRest == Call("consume_rest", NoCall, consume_rest(Self))

ConsumeLiteral ==
    \E literal \in Literals :
        Call("consume_literal", [literal |-> literal], consume_literal(Self, literal))

ConsumeRegex ==
    \E regex \in Regexes :
        Call("consume_regex", [regex |-> regex], consume_regex(Self, regex))

Finish == Call("finish", NoCall, finish(Self))

NextCursor ==
    \/ \E r \in 0..RandBound : Construct(r)
    \/ ConsumeSpaces
    \/ TryConsumeLiteral
    \/ TryFindLiteral
    \/ TryFindRegex
    \/ TryConsumeRegex
    \/ ConsumeRest
    \/ ConsumeLiteral
    \/ ConsumeRegex
    \/ Finish
    \/ Resume

SpecCursor == InitCursor /\ [][NextCursor]_vars

-----------------------------------------------------------------------------
(* Claims about the cursor and the constructor *)

TryOps == {"try_consume_literal", "try_find_literal", "try_find_regex", "try_consume_regex"}

\* C1: whenever try_consume_literal, try_find_literal, try_find_regex or
\* try_consume_regex returns false or nullopt, pos_ is what it was before the call.
C1_FailedTryKeepsPos ==
    (op \in TryOps /\ Failed(ret)) => pos_ = pre.pos_

\* C11: whenever consume_literal, consume_regex, try_consume_regex or
\* try_find_regex fails with the partial exception, pos_ is what it was before
\* the call and nothing was appended to the message's content.
C11_PartialKeepsCursor ==
    (/\ pc = "called"
     /\ op \in {"consume_literal", "consume_regex", "try_consume_regex", "try_find_regex"}
     /\ ret.kind = "throw")
    => pos_ = pre.pos_ /\ result_.content = pre.result_.content

CursorOps ==
    {"consume_spaces", "try_consume_literal", "try_find_literal", "try_find_regex",
     "try_consume_regex", "consume_rest", "try_consume_json"}

\* C12: pos_ never decreases: every cursor operation (consume_spaces,
\* try_consume_literal, try_find_literal, try_find_regex with any from offset,
\* try_consume_regex, consume_rest, try_consume_json) leaves pos_ greater than
\* or equal to its value before the call.
C12_PosMonotonic ==
    (pc = "called" /\ op \in CursorOps) => pos_ >= pre.pos_

\* C8: finish() returns normally exactly when is_partial_ or pos_ = input_.size(),
\* throws otherwise, and in both cases leaves pos_ and the message as they were.
C8_Finish ==
    op = "finish" =>
        /\ ret.kind \in {"void", "throw"}
        /\ ret.kind = "void" <=> (is_partial_ \/ pos_ = Len(input_))
        /\ pos_ = pre.pos_
        /\ result_ = pre.result_

C8_Witness ==
    /\ op = "finish"
    /\ ret.kind = "throw"
    /\ ~is_partial_
    /\ pos_ > 0
    /\ pos_ < Len(input_)

\* C10: once the constructor has returned, healing_marker_ is a non-empty string
\* that occurs nowhere in input_, and no later step changes either of them.
C10_MarkerNotInInput ==
    /\ [](Constructed =>
            /\ healing_marker_ # <<>>
            /\ \A i \in 0..Len(input_) : ~MatchAt(input_, healing_marker_, i))
    /\ [][Constructed => (input_' = input_ /\ healing_marker_' = healing_marker_)]_vars

\* a parser whose input holds a candidate id, after some cursor call
C10_Witness ==
    /\ Constructed
    /\ op = "try_find_regex"
    /\ pos_ > 0
    /\ \E r \in 0..RandBound : find(input_, to_string(r), 0) # npos

-----------------------------------------------------------------------------
(* The XML tool-call parser, called on documents built from parts *)

MaxCalls == 1
MaxXmlContent == 2

OpenTag(name, attr) == <<"<">> \o name \o attr \o <<">">>
CloseTag(name) == <<"<", "/">> \o name \o <<">">>

\* <parameter=KEY>VALUE</parameter>
ParamText(pair) ==
    OpenTag(S_parameter, <<"=">> \o pair[1]) \o pair[2] \o CloseTag(S_parameter)

\* the texts of pairs[lo..hi], one after the other
RECURSIVE ParamsBetween(_, _, _)
ParamsBetween(pairs, lo, hi) ==
    IF lo > hi THEN <<>>
    ELSE IF lo = hi THEN ParamText(pairs[lo])
    ELSE ParamsBetween(pairs, lo, (lo + hi) \div 2)
             \o ParamsBetween(pairs, ((lo + hi) \div 2) + 1, hi)

ParamsText(pairs) == ParamsBetween(pairs, 1, Len(pairs))

\* PREFIX<tool_call><function=ATTR>PARAMS</function></tool_call>
XmlDoc(prefix, attr, pairs) ==
    prefix \o OpenTag(S_tool_call, <<>>)
           \o OpenTag(S_function, <<"=">> \o attr) \o ParamsText(pairs)
           \o CloseTag(S_function) \o CloseTag(S_tool_call)

LongName == [i \in 1..(MAX_TAG_NAME_LENGTH + 1) |-> "g"]
FullName == [i \in 1..MAX_TAG_NAME_LENGTH |-> "g"]

XmlPrefixes == {<<>>, <<"a", " ">>}
XmlAttrs ==
    {<<"f">>, <<"g">>, <<" ", "f">>, <<"\"", "f", "\"">>, <<"\"", " ", "\"">>, <<>>}
Pair_k3 == <<<<"k">>, <<"3">>>>
Pair_jx == <<<<"j">>, <<" ", "x">>>>
Pair_kBad == <<<<"k">>, <<"BAD">>>>
XmlParamLists == {<<>>, <<Pair_k3>>, <<Pair_k3, Pair_jx>>, <<Pair_kBad>>}

\* texts that are no well-formed tool call
XmlBroken ==
    {<<"a">>,
     <<"a">> \o OpenTag(S_tool_call, <<>>) \o <<"x">> \o CloseTag(S_tool_call),
     <<"a">> \o OpenTag(S_tool_call \o <<"s">>, <<>>) \o CloseTag(S_tool_call \o <<"s">>),
     <<"a">> \o OpenTag(S_tool_call, <<>>) \o OpenTag(S_function, <<"=", "f">>)}

\* the parts a document was built from (attr "none": not built from parts)
XmlInputs ==
    {[content |-> XmlDoc(prefix, attr, pairs), prefix |-> prefix, attr |-> attr,
      pairs |-> pairs, built |-> TRUE] :
        prefix \in XmlPrefixes, attr \in XmlAttrs, pairs \in XmlParamLists}
    \cup {[content |-> XmlDoc(<<>>, attr, <<>>), prefix |-> <<>>, attr |-> attr,
            pairs |-> <<>>, built |-> TRUE] : attr \in {LongName, FullName}}
    \cup {[content |-> c, prefix |-> <<>>, attr |-> <<>>, pairs |-> <<>>, built |-> FALSE] :
            c \in XmlBroken}

\* n parameters with the keys 1..n, each of the value 1
NumberedPairs(n) == [i \in 1..n |-> <<to_string(i), <<"1">>>>]

\* documents around the cap on parameters: one short of it, at it, one over it
ParamCounts == {MAX_PARAMETER_COUNT - 1, MAX_PARAMETER_COUNT, MAX_PARAMETER_COUNT + 1}

LargeInputs ==
    {[content |-> XmlDoc(<<>>, <<"f">>, NumberedPairs(n)), prefix |-> <<>>,
      attr |-> <<"f">>, pairs |-> NumberedPairs(n), built |-> TRUE] : n \in ParamCounts}

Tool(name, parameters) == [name |-> name, parameters |-> parameters]

XmlTools ==
    {<<>>,
     <<Tool(<<"f">>, (<<"k">> :> "string"))>>,
     <<Tool(<<"h">>, << >>), Tool(<<"f">>, (<<"k">> :> "integer") @@ (<<"j">> :> ""))>>}

\* A parser constructed on an empty input, std::rand() having given r.
Ready(r) ==
    /\ input_ = <<>>
    /\ is_partial_ = FALSE
    /\ syntax_ = NoSyntax
    /\ pos_ = 0
    /\ healing_marker_ = to_string(r)
    /\ result_ = EmptyMsg
    /\ last_xml_error_ = NoError
    /\ pc = "ready"
    /\ op = "none"
    /\ args = NoCall
    /\ ret = Void
    /\ pre = [pos_ |-> 0, result_ |-> EmptyMsg]
    /\ prior = EmptyMsg

InitXml == Ready(0) /\ text = <<>>

\* the two-argument overload, which keeps the error in last_xml_error_: out
\* is what the three-argument one gives
CallParse(a, out) ==
    /\ pc = "ready"
    /\ pc' = "called"
    /\ op' = "parse_qwen3_xml_tool_call"
    /\ args' = a
    /\ ret' = out.ret
    /\ pre' = [pos_ |-> pos_, result_ |-> result_]
    /\ result_' = out.self.result_
    /\ last_xml_error_' = out.error
    /\ UNCHANGED <<input_, is_partial_, syntax_, pos_, healing_marker_, text, prior>>

ParseXml(inputs, toolsets) ==
    \E in \in inputs, tools \in toolsets :
        /\ Len(result_.tool_calls) < MaxCalls
        /\ Len(result_.content) < MaxXmlContent
        /\ CallParse(in @@ [tools |-> tools],
                     parse_qwen3_xml_tool_call(Self, in.content, tools))

AddContent(contents) ==
    \E content \in contents :
        /\ Len(result_.content) < MaxXmlContent
        /\ Call("add_content", [content |-> content], Out(add_content(Self, content), Void))

ClearTools == Call("clear_tools", NoCall, clear_tools(Self))

MaxBatch == 2

S_id == <<"1">>
S_arguments == <<"{", "}">>

\* the elements of the arrays given to add_tool_calls: a full one, one whose
\* name is empty, one without a name
BatchItems ==
    {[name |-> <<"f">>, id |-> S_id, arguments |-> S_arguments],
     [name |-> <<>>, id |-> S_id, arguments |-> S_arguments],
     [id |-> S_id, arguments |-> S_arguments]}

Batches == SeqsUpTo(BatchItems, MaxBatch)

AddToolCall(names) ==
    \E name \in names :
        /\ Len(result_.tool_calls) < MaxCalls
        /\ Call("add_tool_call", [name |-> name],
                add_tool_call(Self, name, S_id, S_arguments))

AddToolCalls(arrays) ==
    \E arr \in arrays :
        /\ Len(result_.tool_calls) < MaxCalls
        /\ Call("add_tool_calls", [arr |-> arr], add_tool_calls(Self, arr))

\* a document with many parameters, given to a parser that has parsed nothing
ParseLarge(inputs, toolsets) ==
    \E in \in inputs, tools \in toolsets :
        /\ result_ = EmptyMsg
        /\ last_xml_error_ = NoError
        /\ CallParse(in @@ [tools |-> tools],
                     parse_qwen3_xml_tool_call(Self, in.content, tools))

NextXml ==
    \/ ParseXml(XmlInputs, XmlTools)
    \/ ParseLarge(LargeInputs, {<<>>})
    \/ AddContent({<<"z">>})
    \/ AddToolCall({<<>>, <<"f">>})
    \/ AddToolCalls(Batches)
    \/ ClearTools
    \/ Resume

SpecXml == InitXml /\ [][NextXml]_vars

\* the call observed is the XML tool-call parser's
ParsedXml == pc = "called" /\ op = "parse_qwen3_xml_tool_call"

\* C3: whenever parse_qwen3_xml_tool_call returns false, the message's content,
\* reasoning_content and tool_calls are what they were before the call; the
\* text before <tool_call> is not added either.
C3_HardErrorKeepsMessage ==
    (ParsedXml /\ ret = Bool(FALSE)) => result_ = pre.result_

\* an element of an array given to add_tool_calls has no name, or an empty one
NoName(item) == "name" \notin DOMAIN item \/ item.name = <<>>

\* the tool call add_tool_call(item) appends
CallOf(item) == [name |-> item.name, arguments |-> item.arguments, id |-> item.id]

\* C2: add_tool_calls(array) is all-or-nothing.  If an element has an empty or
\* missing name the call returns false and tool_calls is what it was before the
\* call; otherwise it returns true and every element is appended in order.
C2_AllOrNothing ==
    (pc = "called" /\ op = "add_tool_calls") =>
        IF \E i \in 1..Len(args.arr) : NoName(args.arr[i])
        THEN ret = Bool(FALSE) /\ result_.tool_calls = pre.result_.tool_calls
        ELSE /\ ret = Bool(TRUE)
             /\ result_.tool_calls =
                    pre.result_.tool_calls
                        \o [i \in 1..Len(args.arr) |-> CallOf(args.arr[i])]

\* the arguments of a call whose parameters are pairs, each value an integer
ArgumentsOf(pairs) ==
    dump_object([i \in 1..Len(pairs) |-> <<pairs[i][1], JInt(pairs[i][2])>>]).text

\* the call appended a tool call that holds every parameter of the document
AllParametersKept ==
    /\ ret = Bool(TRUE)
    /\ Len(result_.tool_calls) = Len(pre.result_.tool_calls) + 1
    /\ result_.tool_calls[Len(result_.tool_calls)].arguments = ArgumentsOf(args.pairs)

\* C5: a <function> body of exactly 100 well-formed <parameter=KEY> tags is
\* accepted, the tool call holding all 100 parameters; a body of 101 is
\* rejected with TooManyParameters.
C5_ParameterCap ==
    /\ (ParsedXml /\ Len(args.pairs) = MAX_PARAMETER_COUNT) => AllParametersKept
    /\ (ParsedXml /\ Len(args.pairs) = MAX_PARAMETER_COUNT + 1) =>
            /\ ret = Bool(FALSE)
            /\ last_xml_error_.type = "TOO_MANY_PARAMETERS"

\* one parameter short of the cap every parameter is kept
C5_BelowCap ==
    (ParsedXml /\ Len(args.pairs) = MAX_PARAMETER_COUNT - 1) => AllParametersKept

\* C7: in every state reached by add_tool_call, add_tool_calls,
\* parse_qwen3_xml_tool_call and clear_tools, every element of the message's
\* tool_calls has a non-empty name.
C7_NamesNonEmpty ==
    \A i \in 1..Len(result_.tool_calls) : result_.tool_calls[i].name # <<>>

\* a tool call without a name was just refused while the message holds others
C7_Witness ==
    /\ pc = "called"
    /\ op \in {"add_tool_call", "add_tool_calls"}
    /\ ret = Bool(FALSE)
    /\ result_.tool_calls # <<>>

\* NAME of <function=ATTR>: the attribute find_xml_tag reads, trimmed
NameOf(attr) ==
    trim_whitespace(find_xml_tag(OpenTag(S_function, <<"=">> \o attr)
                                     \o CloseTag(S_function),
                                 S_function, 0, NoError).tag.attribute)

ToolNames(tools) == {tools[i].name : i \in 1..Len(tools)}

\* the call was on a well-formed document whose NAME no supplied tool has
UnknownName ==
    /\ ParsedXml
    /\ args.built
    /\ args.tools # <<>>
    /\ NameOf(args.attr) \notin ToolNames(args.tools)

\* the call was rejected as FunctionNotFound and appended no tool call
NotFound ==
    /\ ret = Bool(FALSE)
    /\ last_xml_error_.type = "FUNCTION_NOT_FOUND"
    /\ result_.tool_calls = pre.result_.tool_calls

\* with no tools, a NAME that is not empty and no longer than 256 characters is
\* not refused: no error about the name, and a call that succeeds appends a
\* tool call of that name
AnyNameAccepted ==
    (/\ ParsedXml
     /\ args.built
     /\ args.tools = <<>>
     /\ NameOf(args.attr) # <<>>
     /\ Len(NameOf(args.attr)) <= MAX_TAG_NAME_LENGTH)
    => /\ last_xml_error_.type \notin {"FUNCTION_NOT_FOUND", "INVALID_FUNCTION_NAME"}
       /\ ret = Bool(TRUE) =>
             /\ Len(result_.tool_calls) = Len(pre.result_.tool_calls) + 1
             /\ result_.tool_calls[Len(result_.tool_calls)].name = NameOf(args.attr)

\* C9, as stated: with a non-empty tools list, every NAME that no supplied tool
\* has makes parse_qwen3_xml_tool_call return false with FunctionNotFound and
\* append nothing; with an empty list any non-empty NAME of at most 256
\* characters is accepted.
C9_AsStated ==
    /\ UnknownName => NotFound
    /\ AnyNameAccepted

\* C9: with a non-empty tools list, a NAME that is not empty after trimming, is
\* at most 256 characters long and is the name of no supplied tool makes
\* parse_qwen3_xml_tool_call return false with FunctionNotFound and append no
\* tool call; with an empty list any non-empty NAME of at most 256 characters
\* is accepted.
C9_Whitelist ==
    /\ (/\ UnknownName
        /\ NameOf(args.attr) # <<>>
        /\ Len(NameOf(args.attr)) <= MAX_TAG_NAME_LENGTH) => NotFound
    /\ AnyNameAccepted

\* a name of full length that no supplied tool has was refused as not found
C9_Witness ==
    /\ UnknownName
    /\ Len(NameOf(args.attr)) = MAX_TAG_NAME_LENGTH
    /\ NotFound

\* the document's NAME is accepted: not empty, of at most 256 characters and,
\* where tools are supplied, the name of one of them
NameAccepted ==
    /\ NameOf(args.attr) # <<>>
    /\ Len(NameOf(args.attr)) <= MAX_TAG_NAME_LENGTH
    /\ (args.tools # <<>> => NameOf(args.attr) \in ToolNames(args.tools))

\* the keys of the document's parameters are non-empty and distinct
KeysDistinct(pairs) ==
    /\ \A i \in 1..Len(pairs) : pairs[i][1] # <<>>
    /\ \A i, j \in 1..Len(pairs) : pairs[i][1] = pairs[j][1] => i = j

\* the JSON value VALUE is coerced to
CoercedValue(pair, param_config) ==
    json_parse(convert_qwen3_param_value(pair[2], pair[1], param_config).text).j

\* the object of the keys in order, each with its coerced value
CoercedObject(pairs, param_config) ==
    [i \in 1..Len(pairs) |-> <<pairs[i][1], CoercedValue(pairs[i], param_config)>>]

\* the tool call the success path appends
SuccessCall(name, pairs, tools) ==
    [name |-> name, id |-> <<>>,
     arguments |-> dump_object(CoercedObject(pairs, get_param_config(name, tools))).text]

\* the call was on a document of the form PREFIX<tool_call><function=NAME>
\* <parameter=K1>V1</parameter>...</function></tool_call> with an accepted
\* NAME, fewer than 100 parameters and distinct non-empty keys
WellFormedCall ==
    /\ ParsedXml
    /\ args.built
    /\ NameAccepted
    /\ Len(args.pairs) < MAX_PARAMETER_COUNT
    /\ KeysDistinct(args.pairs)

\* the call returned true, appended exactly PREFIX to the content and exactly
\* one tool call: NAME, the id "" and the dump of the coerced object
Succeeded ==
    /\ ret = Bool(TRUE)
    /\ result_.content = pre.result_.content \o args.prefix
    /\ result_.tool_calls =
           Append(pre.result_.tool_calls,
                  SuccessCall(NameOf(args.attr), args.pairs, args.tools))

HasBad(s) == \E i \in 1..Len(s) : s[i] = "BAD"

-----------------------------------------------------------------------------
(* The coercion of parameter values, on its own *)

MaxValueLen == 3

\* the characters of the values: a quote, a backslash, a newline, a space, a
\* letter, a digit and a byte that is not valid UTF-8
ValueAlphabet == {"\"", "\\", "\n", " ", "a", "7", "BAD"}

\* integer literals at the ends of the range of int and of long long, with
\* zeros in front, and digits followed by letters
IntegerValues ==
    {INT_MAX_TEXT, INT_MIN_TEXT, <<"-">> \o INT_MAX_TEXT, <<"-">> \o INT_MIN_TEXT,
     <<"-", "2", "1", "4", "7", "4", "8", "3", "6", "4", "9">>, <<"2", "1", "4", "7", "4", "8", "3", "6", "4", "6">>,
     LLONG_MIN_TEXT, <<"-">> \o LLONG_MIN_TEXT,
     <<"0", "0", "7">>, <<"-", "0">>, <<" ", "4", "2", "\n">>,
     <<"1", "2", "a", "b", "c">>}

\* the values converted: text holds the one this parser converts
Values ==
    SeqsUpTo(ValueAlphabet, MaxValueLen)
        \cup {S_null, <<" ">> \o S_null \o <<"\n">>, S_true}
        \cup IntegerValues

\* the types the schema declares for the parameter ("": declared without a type)
DeclaredTypes == {"string", "str", "text", "", "integer", "int", "boolean"}

S_p == <<"p">>

InitCoerce == Ready(0) /\ text \in Values

\* what convert_qwen3_param_value returns or throws
Returned(out) == IF out.thrown THEN Throws(<<>>) ELSE Str(out.text)

CallConvert(a, out) ==
    /\ pc = "ready"
    /\ pc' = "called"
    /\ op' = "convert_qwen3_param_value"
    /\ args' = a
    /\ ret' = Returned(out)
    /\ pre' = [pos_ |-> pos_, result_ |-> result_]
    /\ UNCHANGED <<input_, is_partial_, syntax_, pos_, healing_marker_, result_,
                   last_xml_error_, text, prior>>

\* the parameter p, declared with the type type, is given the value text
Convert(types) ==
    \E type \in types :
        CallConvert([value |-> text, type |-> type],
                    convert_qwen3_param_value(text, S_p, S_p :> type))

\* the parameter p, which no schema declares, is given the value text
Infer ==
    CallConvert([value |-> text, type |-> "none"],
                convert_qwen3_param_value(text, S_p, << >>))

NextCoerce ==
    \/ Convert(DeclaredTypes)
    \/ Infer
    \/ Resume

SpecCoerce == InitCoerce /\ [][NextCoerce]_vars

\* the call observed converted a value for a parameter declared as a string
ConvertedString ==
    /\ pc = "called"
    /\ op = "convert_qwen3_param_value"
    /\ args.type \in StringTypes \cup {""}

\* the value returned is the JSON text of the string s
ReadsBackAs(s) ==
    /\ ret.kind = "string"
    /\ json_parse(ret.val) = [ok |-> TRUE, j |-> JString(s)]

\* C6, as stated: for a parameter declared as a string and every VALUE,
\* deserializing what convert_qwen3_param_value returns gives a string equal
\* to VALUE.
C6_AsStated == ConvertedString => ReadsBackAs(args.value)

\* C6: for a parameter declared as a string and every VALUE that is valid
\* UTF-8 and is not the text null once trimmed, deserializing what
\* convert_qwen3_param_value returns gives the string trim_whitespace(VALUE).
C6_RoundTrip ==
    (/\ ConvertedString
     /\ ~HasBad(args.value)
     /\ trim_whitespace(args.value) # S_null)
    => ReadsBackAs(trim_whitespace(args.value))

\* a value with a quote, a backslash and whitespace at its end was read back
\* trimmed
C6_Witness ==
    /\ ConvertedString
    /\ args.value = <<"\"", "\\", "\n">>
    /\ ReadsBackAs(<<"\"", "\\">>)

\* the call observed converted a value for a parameter declared as an integer
ConvertedInteger ==
    /\ pc = "called"
    /\ op = "convert_qwen3_param_value"
    /\ args.type \in IntegerTypes

\* a decimal integer literal: an optional minus sign, then digits
IsIntegerLiteral(s) ==
    LET body == IF s # <<>> /\ s[1] = "-" THEN Tail(s) ELSE s
    IN  body # <<>> /\ \A i \in 1..Len(body) : body[i] \in DigitChars

RECURSIVE StripZeros(_)
StripZeros(d) == IF Len(d) > 1 /\ d[1] = "0" THEN StripZeros(Tail(d)) ELSE d

\* the literal's sign and magnitude
IsNegative(s) == s[1] = "-"
Magnitude(s) == StripZeros(IF IsNegative(s) THEN Tail(s) ELSE s)

\* the literal's value lies in [-2147483648, 2147483647]
InIntRange(s) ==
    decimal_leq(Magnitude(s), IF IsNegative(s) THEN INT_MIN_TEXT ELSE INT_MAX_TEXT)

\* the value returned is the JSON number of the literal's value
ReadsBackAsNumber(s) ==
    /\ ret.kind = "string"
    /\ json_parse(ret.val) =
           [ok |-> TRUE,
            j |-> JInt(IF IsNegative(s) /\ Magnitude(s) # <<"0">>
                       THEN <<"-">> \o Magnitude(s) ELSE Magnitude(s))]

\* C14: for a parameter declared integer or int whose trimmed VALUE is a
\* decimal integer literal, convert_qwen3_param_value returns the JSON number of
\* that value when it lies in [-2147483648, 2147483647] and the JSON string
\* holding the literal text when it lies outside.
C14_IntegerRange ==
    (ConvertedInteger /\ IsIntegerLiteral(trim_whitespace(args.value)))
    => IF InIntRange(trim_whitespace(args.value))
       THEN ReadsBackAsNumber(trim_whitespace(args.value))
       ELSE ReadsBackAs(trim_whitespace(args.value))

\* 2147483648, one above the range, was returned as a string
C14_Witness ==
    /\ ConvertedInteger
    /\ args.value = INT_MIN_TEXT
    /\ ReadsBackAs(INT_MIN_TEXT)

\* the call observed converted a value as an integer would be, by declaration
\* or by inference without a schema
ConvertedAsInteger ==
    /\ pc = "called"
    /\ op = "convert_qwen3_param_value"
    /\ args.type \in IntegerTypes \cup {"none"}

\* the value returned is a JSON integer
ReturnedInteger ==
    /\ ret.kind = "string"
    /\ json_parse(ret.val).ok
    /\ json_parse(ret.val).j.t = "integer"

\* C20: convert_qwen3_param_value returns a JSON integer, for a parameter
\* declared as an integer or for one without a schema, only when the whole
\* trimmed VALUE is a decimal integer literal; digits followed by other
\* characters are returned as the JSON string of the whole trimmed text.
C20_WholeLiteral ==
    ConvertedAsInteger =>
        /\ ReturnedInteger => IsIntegerLiteral(trim_whitespace(args.value))
        /\ (/\ ~IsIntegerLiteral(trim_whitespace(args.value))
            /\ ~HasBad(args.value)
            /\ trim_whitespace(args.value) # <<>>
            /\ trim_whitespace(args.value)[1] \in DigitChars)
           => ReadsBackAs(trim_whitespace(args.value))

-----------------------------------------------------------------------------
(* The search for a tag, on its own *)

MaxPieces == 3

S_tool == <<"t", "o", "o", "l">>

\* the parts the texts searched are made of: tags of the names tool and
\* tool_call, whole and cut short, and plain text
TagPieces ==
    {OpenTag(S_tool_call, <<>>), CloseTag(S_tool_call),
     OpenTag(S_tool, <<>>), OpenTag(S_tool, <<" ", "a", "=", "b">>), CloseTag(S_tool),
     <<"<">> \o S_tool, <<"x">>}

RECURSIVE Flatten(_)
Flatten(pieces) ==
    IF pieces = <<>> THEN <<>> ELSE Head(pieces) \o Flatten(Tail(pieces))

TagTexts == {Flatten(pieces) : pieces \in SeqsUpTo(TagPieces, MaxPieces)}

InitFind == Ready(0) /\ text \in TagTexts

\* what find_xml_tag returns: the tag, or std::nullopt
Tag(tag) == IF tag.found THEN [kind |-> "tag", tag |-> tag] ELSE None

\* find_xml_tag(text, tag_name, start_pos, &error) on the text held
FindXmlTag(names, starts) ==
    \E tag_name \in names, start_pos \in starts :
        /\ pc = "ready"
        /\ pc' = "called"
        /\ op' = "find_xml_tag"
        /\ args' = [tag_name |-> tag_name, start_pos |-> start_pos]
        /\ ret' = Tag(find_xml_tag(text, tag_name, start_pos, NoError).tag)
        /\ pre' = [pos_ |-> pos_, result_ |-> result_]
        /\ UNCHANGED <<input_, is_partial_, syntax_, pos_, healing_marker_, result_,
                       last_xml_error_, text, prior>>

NextFind ==
    \/ FindXmlTag({S_tool, S_tool_call}, {0, 1})
    \/ Resume

SpecFind == InitFind /\ [][NextFind]_vars

FoundTag == pc = "called" /\ op = "find_xml_tag"

\* <name lies in txt at offset i and >, = or whitespace follows it
RealTagAt(txt, name, i) ==
    /\ MatchAt(txt, <<"<">> \o name, i)
    /\ i + 1 + Len(name) < Len(txt)
    /\ LET next == txt[i + 2 + Len(name)]
       IN  next \in {">", "="} \/ isspace(next)

\* the offsets from start_pos on where a tag of the name opens
RealTags(txt, name, start_pos) ==
    {i \in start_pos..Len(txt) : RealTagAt(txt, name, i)}

\* the first real tag is whole: its > and its closing tag follow
WholeAt(txt, name, i) ==
    /\ find(txt, <<">">>, i) # npos
    /\ find(txt, CloseTag(name), find(txt, <<">">>, i) + 1) # npos

\* C15: a tag find_xml_tag returns begins at an occurrence of <name that >, =
\* or whitespace follows, never at <name followed by more of a longer name:
\* a text with no such occurrence gives nullopt, and a whole <name ...> after
\* a longer name that begins with name is found.
C15_NoFalsePrefix ==
    FoundTag =>
        LET reals == RealTags(text, args.tag_name, args.start_pos)
        IN  /\ ret # None => ret.tag.start_pos \in reals
            /\ reals = {} => ret = None
            /\ (reals # {} /\ WholeAt(text, args.tag_name, MinOf(reals)))
                   => ret # None /\ ret.tag.start_pos = MinOf(reals)

\* tool was searched in <tool_call><tool a=b></tool> and found behind
\* tool_call
C15_Witness ==
    /\ FoundTag
    /\ args = [tag_name |-> S_tool, start_pos |-> 0]
    /\ text = OpenTag(S_tool_call, <<>>) \o OpenTag(S_tool, <<" ", "a", "=", "b">>)
                  \o CloseTag(S_tool)
    /\ ret # None
    /\ ret.tag.start_pos = Len(OpenTag(S_tool_call, <<>>))
    /\ ret.tag.attribute = <<"b">>

-----------------------------------------------------------------------------
(* A message that grows: the parse of a prefix, then of the whole text *)

S_t == <<"<", "t", ">">>
S_end_t == <<"<", "/", "t", ">">>

\* the texts streamed: text holds the whole one, input_ what has come so far
StreamTexts ==
    {S_t \o <<"a">> \o S_end_t \o <<"b">>,
     S_t \o <<" ", "a">>,
     <<"a">> \o S_t,
     S_t \o S_end_t,
     <<" ", "b">>}

Prefixes(t) == {SubSeq(t, 1, n) : n \in 0..Len(t)}

Syntaxes ==
    [reasoning_format : {"NONE", "DEEPSEEK", "AUTO"},
     reasoning_in_content : BOOLEAN,
     thinking_forced_open : BOOLEAN]

\* the constructor is entered with a prefix of the text and is_partial = true
InitStream ==
    /\ text \in StreamTexts
    /\ input_ \in Prefixes(text)
    /\ is_partial_ = TRUE
    /\ syntax_ \in Syntaxes
    /\ pos_ = 0
    /\ healing_marker_ = <<>>
    /\ result_ = EmptyMsg
    /\ last_xml_error_ = NoError
    /\ pc = "constructing"
    /\ op = "none"
    /\ args = [parse |-> "prefix", start_think |-> S_t, end_think |-> S_end_t]
    /\ ret = Void
    /\ pre = [pos_ |-> 0, result_ |-> EmptyMsg]
    /\ prior = EmptyMsg

\* out is what try_parse_reasoning gives
Reasoned(out) ==
    /\ pc = "ready"
    /\ pc' = "reasoned"
    /\ op' = "try_parse_reasoning"
    /\ ret' = out.ret
    /\ pre' = [pos_ |-> pos_, result_ |-> result_]
    /\ pos_' = out.self.pos_
    /\ result_' = out.self.result_
    /\ UNCHANGED <<input_, is_partial_, syntax_, healing_marker_, last_xml_error_,
                   args, text, prior>>

TryParseReasoning ==
    Reasoned(try_parse_reasoning(Self, args.start_think, args.end_think))

\* rest is what consume_rest gives: add_content(consume_rest())
RestAdded(rest) ==
    /\ pc = "reasoned"
    /\ pc' = "parsed"
    /\ op' = "add_content"
    /\ ret' = Void
    /\ pre' = [pos_ |-> pos_, result_ |-> result_]
    /\ pos_' = rest.self.pos_
    /\ result_' = add_content(rest.self, rest.ret.val).result_
    /\ UNCHANGED <<input_, is_partial_, syntax_, healing_marker_, last_xml_error_,
                   args, text, prior>>

AddRest == RestAdded(consume_rest(Self))

\* the rest of the text has come: the message of the prefix is kept in prior
\* and a new parser is constructed on the whole text
Extend ==
    /\ pc = "parsed"
    /\ args.parse = "prefix"
    /\ prior' = result_
    /\ input_' = text
    /\ is_partial_' \in BOOLEAN
    /\ pos_' = 0
    /\ healing_marker_' = <<>>
    /\ result_' = EmptyMsg
    /\ pc' = "constructing"
    /\ op' = "none"
    /\ args' = [args EXCEPT !.parse = "whole"]
    /\ ret' = Void
    /\ pre' = [pos_ |-> 0, result_ |-> EmptyMsg]
    /\ UNCHANGED <<syntax_, last_xml_error_, text>>

NextStream ==
    \/ \E r \in 0..RandBound : Construct(r)
    \/ TryParseReasoning
    \/ AddRest
    \/ Extend

SpecStream == InitStream /\ [][NextStream]_vars

IsPrefix(a, b) == Len(a) <= Len(b) /\ SubSeq(b, 1, Len(a)) = a

\* C4: for a text, a prefix of it and a reasoning configuration, the message
\* of the prefix parsed with is_partial = true (try_parse_reasoning, then
\* add_content(consume_rest())) is extended by the message of the whole text
\* parsed the same way: content, reasoning_content and tool_calls of the
\* former are prefixes of those of the latter.
C4_AppendOnly ==
    (pc = "parsed" /\ args.parse = "whole") =>
        /\ IsPrefix(prior.content, result_.content)
        /\ IsPrefix(prior.reasoning_content, result_.reasoning_content)
        /\ IsPrefix(prior.tool_calls, result_.tool_calls)

\* try_parse_reasoning was called on a complete input with the thinking open,
\* by force or by start_think at the cursor, and end_think nowhere after it
UnclosedReasoning ==
    /\ pc = "reasoned"
    /\ op = "try_parse_reasoning"
    /\ ~is_partial_
    /\ syntax_.reasoning_format # "NONE"
    /\ syntax_.thinking_forced_open \/ MatchAt(input_, args.start_think, pre.pos_)
    /\ find(input_, args.end_think, pre.pos_) = npos

\* where the reasoning text begins
WindowStart ==
    IF syntax_.thinking_forced_open THEN pre.pos_ ELSE pre.pos_ + Len(args.start_think)

\* the tags written around reasoning that goes to the content
ThinkTag == IF syntax_.reasoning_format = "DEEPSEEK" THEN S_think ELSE args.start_think
EndThinkTag == IF syntax_.reasoning_format = "DEEPSEEK" THEN S_end_think ELSE args.end_think

\* the message holds reasoning as closed reasoning text, added to what it held
AddedAsReasoning(reasoning) ==
    IF reasoning = <<>> THEN result_ = pre.result_
    ELSE IF syntax_.reasoning_in_content
    THEN result_ = [pre.result_ EXCEPT
                       !.content = @ \o ThinkTag \o reasoning \o EndThinkTag]
    ELSE result_ = [pre.result_ EXCEPT !.reasoning_content = @ \o reasoning]

\* C17: with a reasoning format, a complete input and the thinking open (forced
\* open, or start_think at the cursor) while end_think never occurs,
\* try_parse_reasoning returns true without throwing, takes all the remaining
\* input (stripped) as closed reasoning text and leaves pos_ at the end of the
\* input, so that finish() returns normally.
C17_UnclosedTolerated ==
    UnclosedReasoning =>
        /\ ret = Bool(TRUE)
        /\ pos_ = Len(input_)
        /\ AddedAsReasoning(string_strip(substr_from(input_, WindowStart)))
        /\ finish(Self).ret = Void

\* "<t> a", complete, gave the reasoning "a"
C17_Witness ==
    /\ UnclosedReasoning
    /\ input_ = S_t \o <<" ", "a">>
    /\ ~syntax_.thinking_forced_open
    /\ ~syntax_.reasoning_in_content
    /\ result_.reasoning_content = <<"a">>
    /\ pos_ = 5

-----------------------------------------------------------------------------
(* The healed-JSON consumer and the dumper of arguments and contents *)

JObject(members) == [t |-> "object", v |-> members]   \* v: a sequence of <<key, value>>
JArray(items) == [t |-> "array", v |-> items]

\* json::dump() of a value with objects and arrays in it
RECURSIVE dump(_)
RECURSIVE dump_pairs(_, _)
RECURSIVE dump_list(_, _)

dump_pairs(members, i) ==
    IF i > Len(members) THEN <<>>
    ELSE (IF i > 1 THEN <<",">> ELSE <<>>)
             \o dump_string(members[i][1]).text \o <<":">> \o dump(members[i][2])
             \o dump_pairs(members, i + 1)

dump_list(items, i) ==
    IF i > Len(items) THEN <<>>
    ELSE (IF i > 1 THEN <<",">> ELSE <<>>) \o dump(items[i]) \o dump_list(items, i + 1)

dump(j) ==
    CASE j.t = "object" -> <<"{">> \o dump_pairs(j.v, 1) \o <<"}">>
      [] j.t = "array" -> <<"[">> \o dump_list(j.v, 1) \o <<"]">>
      [] OTHER -> dump_value(j).text

\* common_json: the value and the healing marker the partial-JSON parser gives
NoHealing == [marker |-> <<>>, json_dump_marker |-> <<>>]
Complete(j) == [json |-> j, healing_marker |-> NoHealing]

\* the parser completed the text with the marker: before is what it wrote in
\* front of the marker ('"' where a string had to be opened)
Healed(j, marker, before) ==
    [json |-> j,
     healing_marker |-> [marker |-> marker, json_dump_marker |-> before \o marker]]

\* the text a parse result came from: the dump of the value, up to where the
\* parser began to write
truncated_at(txt, idx) == IF idx = npos THEN txt ELSE substr(txt, 0, idx)

source_of(txt, healing_marker) ==
    IF healing_marker.marker = <<>> THEN txt
    ELSE truncated_at(txt, find(txt, healing_marker.json_dump_marker, 0))

Source(parsed) == source_of(dump(parsed.json), parsed.healing_marker)

S_name == <<"n", "a", "m", "e">>
S_sum == <<"s", "u", "m">>
S_args == <<"a", "r", "g", "u", "m", "e", "n", "t", "s">>
S_content == <<"c", "o", "n", "t", "e", "n", "t">>
S_hel == <<"h", "e", "l">>
S_a == <<"a">>
S_b == <<"b">>
S_o == <<"o">>
S_x == <<"x">>
S_y == <<"y">>

\* {"name":"sum","arguments":{"a":1,B}}
SumCall(b_member) ==
    JObject(<<<<S_name, JString(S_sum)>>,
              <<S_args, JObject(<<<<S_a, JInt(<<"1">>)>>, b_member>>)>>>>)

\* what the parser gives for the texts the model draws, m being the healing
\* marker it was given: whole texts, and texts cut inside a string, inside a
\* key, after a colon and after a comma
ParsedDocs(m) ==
    {Complete(SumCall(<<S_b, JInt(<<"2">>)>>)),
     Healed(SumCall(<<S_b, JString(m)>>), m, <<"\"">>),
     Healed(SumCall(<<S_b \o m, JInt(<<"1">>)>>), m, <<>>),
     Healed(JObject(<<<<S_a, JInt(<<"1">>)>>, <<S_content, JString(S_hel \o m)>>>>), m, <<>>),
     Healed(JObject(<<<<S_a, JInt(<<"1">>)>>, <<S_content, JString(m)>>>>), m, <<"\"">>),
     Complete(JObject(<<<<S_content, JString(S_hel)>>, <<S_a, JNull>>>>)),
     Complete(JString(S_hel)),
     Healed(JObject(<<<<S_a, JString(S_x)>>, <<S_args, JString(S_hel \o m)>>>>), m, <<>>),
     Complete(JObject(<<<<S_args, JString(S_hel)>>, <<S_a, JInt(<<"1">>)>>>>)),
     Healed(JObject(<<<<S_a, JArray(<<JString(S_x), JString(S_y \o m)>>)>>>>), m, <<>>),
     Healed(JObject(<<<<S_a, JInt(<<"1">>)>>, <<m, JInt(<<"1">>)>>>>), m, <<"\"">>),
     Healed(JObject(<<<<S_o, JObject(<<<<S_args,
                JObject(<<<<S_x, JArray(<<JInt(<<"1">>), JString(S_y \o m)>>)>>>>)>>>>)>>>>),
            m, <<>>),
     Complete(JObject(<<<<S_o, JObject(<<<<S_args,
                JObject(<<<<S_x, JArray(<<JInt(<<"1">>), JBool(TRUE)>>)>>>>)>>>>)>>>>)),
     Complete(JArray(<<JInt(<<"1">>), JString(S_x)>>))}

\* common_json_parse(it, end, healing_marker, out) on the text str: the value,
\* the healing and how far it read, ok being false on a syntax error
json_parsed(str, docs) ==
    IF docs = {} THEN [ok |-> FALSE, read |-> 0, out |-> Complete(JNull)]
    ELSE [ok |-> TRUE, read |-> Len(str), out |-> CHOOSE d \in docs : TRUE]

common_json_parse(str, healing_marker) ==
    json_parsed(str, {d \in ParsedDocs(healing_marker) : Source(d) = str})

Json(out) == [kind |-> "json", json |-> out.json, healing_marker |-> out.healing_marker]

\* try_consume_json, parsed being what common_json_parse gave
json_consumed(self, parsed) ==
    IF ~parsed.ok THEN Out(self, None)
    ELSE IF parsed.out.healing_marker.marker = <<>>
    THEN Out([self EXCEPT !.pos_ = @ + parsed.read], Json(parsed.out))
    ELSE IF ~self.is_partial_
    THEN Out([self EXCEPT !.pos_ = @ + parsed.read], Throws(<<"J", "S", "O", "N">>))
    ELSE Out([self EXCEPT !.pos_ = @ + parsed.read], Json(parsed.out))

try_consume_json(self) ==
    json_consumed(self, common_json_parse(substr_from(self.input_, self.pos_),
                                          self.healing_marker_))

\* what the lambda remove_unsupported_healings_and_dump_args captures: ctx is
\* [args_paths, content_paths, is_partial, healing_marker, healing_marker_]
\* and st is [path, found_healing_marker]
Walked(j, st) == [thrown |-> FALSE, j |-> j, st |-> st]
WalkThrown(st) == [thrown |-> TRUE, j |-> JNull, st |-> st]

found(st) == [st EXCEPT !.found_healing_marker = TRUE]
push_back(st, key) == [st EXCEPT !.path = Append(@, key)]
pop_back(st) == [st EXCEPT !.path = SubSeq(@, 1, Len(@) - 1)]

\* the arguments once cut at idx
arguments_cut(ctx, arguments, idx, st) ==
    Walked(JString(IF truncated_at(arguments, idx) = <<"\"">> THEN <<>>
                   ELSE truncated_at(arguments, idx)),
           IF idx # npos THEN found(st) ELSE st)

\* the branch of an arguments path, arguments being j.dump()
dumped_arguments(ctx, arguments, st) ==
    IF ctx.is_partial /\ ctx.healing_marker.marker # <<>>
    THEN arguments_cut(ctx, arguments,
                       find(arguments, ctx.healing_marker.json_dump_marker, 0), st)
    ELSE Walked(JString(arguments), st)

\* the branch of a content path
content_cut(str, idx, st) ==
    Walked(JString(truncated_at(str, idx)), IF idx # npos THEN found(st) ELSE st)

content_string(ctx, j, st) ==
    IF j.t # "string" THEN WalkThrown(st)
    ELSE content_cut(j.v, find(j.v, ctx.healing_marker.marker, 0), st)

RECURSIVE remove_unsupported_healings_and_dump_args(_, _, _)
RECURSIVE healed_object(_, _, _, _, _)
RECURSIVE healed_array(_, _, _, _, _)

\* obj[key] = the value the recursion gave, then path.pop_back() and the next
\* member
member_walked(ctx, members, i, obj, r) ==
    IF r.thrown THEN r
    ELSE healed_object(ctx, members, i + 1, object_set(obj, members[i][1], r.j),
                       pop_back(r.st))

\* member_marked keeping the member of a content path wherever the healing fell
member_marked_anywhere(ctx, key, value, obj, st) ==
    IF st.path \in ctx.content_paths
    THEN LET r == remove_unsupported_healings_and_dump_args(ctx, value, st)
         IN  IF r.thrown THEN r ELSE Walked(JObject(object_set(obj, key, r.j)), r.st)
    ELSE Walked(JObject(obj), st)

\* a string member that holds the marker: kept, cut, if its path is a content
\* path and the healing fell inside the string; the loop breaks with the key
\* still on the path
member_marked(ctx, key, value, obj, st) ==
    IF st.path \in ctx.content_paths
       /\ ctx.healing_marker.marker = ctx.healing_marker.json_dump_marker
    THEN LET r == remove_unsupported_healings_and_dump_args(ctx, value, st)
         IN  IF r.thrown THEN r ELSE Walked(JObject(object_set(obj, key, r.j)), r.st)
    ELSE Walked(JObject(obj), st)

\* the loop's body once key_str is on the path
member_pushed(ctx, members, i, obj, st) ==
    IF members[i][2].t = "string"
    THEN IF find(members[i][2].v, ctx.healing_marker_, 0) # npos
         THEN member_marked(ctx, members[i][1], members[i][2], obj, found(st))
         ELSE healed_object(ctx, members, i + 1,
                            object_set(obj, members[i][1], members[i][2]), pop_back(st))
    ELSE member_walked(ctx, members, i, obj,
                       remove_unsupported_healings_and_dump_args(ctx, members[i][2], st))

\* the loop over j.items() from member i on
healed_object(ctx, members, i, obj, st) ==
    IF i > Len(members) THEN Walked(JObject(obj), st)
    ELSE IF find(members[i][1], ctx.healing_marker_, 0) # npos
    THEN Walked(JObject(obj), found(st))
    ELSE member_pushed(ctx, members, i, obj, push_back(st, members[i][1]))

item_walked(ctx, items, i, arr, r) ==
    IF r.thrown THEN r
    ELSE healed_array(ctx, items, i + 1, Append(arr, r.j), r.st)

\* the loop over the elements of an array from element i on
healed_array(ctx, items, i, arr, st) ==
    IF i > Len(items) THEN Walked(JArray(arr), st)
    ELSE IF items[i].t = "string" /\ find(items[i].v, ctx.healing_marker_, 0) # npos
    THEN Walked(JArray(arr), found(st))
    ELSE item_walked(ctx, items, i, arr,
                     remove_unsupported_healings_and_dump_args(ctx, items[i], st))

remove_unsupported_healings_and_dump_args(ctx, j, st) ==
    IF st.path \in ctx.args_paths THEN dumped_arguments(ctx, dump(j), st)
    ELSE IF st.path \in ctx.content_paths THEN content_string(ctx, j, st)
    ELSE IF j.t = "object" THEN healed_object(ctx, j.v, 1, <<>>, st)
    ELSE IF j.t = "array" THEN healed_array(ctx, j.v, 1, <<>>, st)
    ELSE Walked(j, st)

\* consume_json_result
JsonResult(value, is_partial) ==
    [kind |-> "result", value |-> value, is_partial |-> is_partial]

\* the end of try_consume_json_with_dumped_args
json_cleaned(self, cleaned) ==
    IF cleaned.thrown THEN Out(self, Throws(<<>>))
    ELSE Out(self, JsonResult(cleaned.j, cleaned.st.found_healing_marker))

WalkStart == [path |-> <<>>, found_healing_marker |-> FALSE]

\* try_consume_json_with_dumped_args from the test of the marker on
json_dumped(self, json, healing_marker, args_paths, content_paths) ==
    IF healing_marker.marker = <<>> /\ args_paths = {}
    THEN Out(self, JsonResult(json, FALSE))
    ELSE IF healing_marker.marker = <<>> /\ <<>> \in args_paths
    THEN Out(self, JsonResult(JString(dump(json)), FALSE))
    ELSE json_cleaned(self,
            remove_unsupported_healings_and_dump_args(
                [args_paths |-> args_paths, content_paths |-> content_paths,
                 is_partial |-> self.is_partial_, healing_marker |-> healing_marker,
                 healing_marker_ |-> self.healing_marker_],
                json, WalkStart))

\* partial is what try_consume_json gave
json_partial(partial, args_paths, content_paths) ==
    IF partial.ret.kind # "json" THEN partial
    ELSE json_dumped(partial.self, partial.ret.json, partial.ret.healing_marker,
                     args_paths, content_paths)

\* args_paths and content_paths are sets of paths, a path being a sequence of
\* keys: the code only asks whether a path is among them
try_consume_json_with_dumped_args(self, args_paths, content_paths) ==
    json_partial(try_consume_json(self), args_paths, content_paths)

-----------------------------------------------------------------------------
(* The JSON consumer, called on texts whole and cut short *)

S_marker == <<"0">>

\* the texts: those the parser reads, and one that is no JSON
JsonInputs == {Source(d) : d \in ParsedDocs(S_marker)} \cup {S_x}

ArgsPathSets == {{}, {<<>>}, {<<S_args>>}, {<<S_o, S_args>>}, {<<S_args>>, <<S_content>>}}
ContentPathSets == {{}, {<<>>}, {<<S_content>>}, {<<S_a>>}}

\* a parser constructed on one of the texts, std::rand() having given 0
InitJson ==
    /\ input_ \in JsonInputs
    /\ is_partial_ \in BOOLEAN
    /\ syntax_ = NoSyntax
    /\ pos_ = 0
    /\ healing_marker_ = S_marker
    /\ result_ = EmptyMsg
    /\ last_xml_error_ = NoError
    /\ pc = "ready"
    /\ op = "none"
    /\ args = NoCall
    /\ ret = Void
    /\ pre = [pos_ |-> 0, result_ |-> EmptyMsg]
    /\ prior = EmptyMsg
    /\ text = <<>>

TryConsumeJson == Call("try_consume_json", NoCall, try_consume_json(Self))

TryConsumeJsonWithDumpedArgs(args_sets, content_sets) ==
    \E args_paths \in args_sets, content_paths \in content_sets :
        Call("try_consume_json_with_dumped_args",
             [args_paths |-> args_paths, content_paths |-> content_paths],
             try_consume_json_with_dumped_args(Self, args_paths, content_paths))

NextJson ==
    \/ TryConsumeJson
    \/ TryConsumeJsonWithDumpedArgs(ArgsPathSets, ContentPathSets)
    \/ Resume

SpecJson == InitJson /\ [][NextJson]_vars

\* the call observed is the dumper's and returned a result
DumpedArgs ==
    /\ pc = "called"
    /\ op = "try_consume_json_with_dumped_args"
    /\ ret.kind = "result"

\* what the partial-JSON parser gave for the text at the cursor
ParsedJson == common_json_parse(substr_from(input_, pre.pos_), healing_marker_).out

\* the member of the key in an object's members
HasMember(members, key) == \E i \in 1..Len(members) : members[i][1] = key
MemberOf(members, key) ==
    members[CHOOSE i \in 1..Len(members) : members[i][1] = key][2]

\* the value at a path of keys below j
RECURSIVE HasPath(_, _)
HasPath(j, path) ==
    \/ path = <<>>
    \/ /\ j.t = "object"
       /\ HasMember(j.v, Head(path))
       /\ HasPath(MemberOf(j.v, Head(path)), Tail(path))

RECURSIVE ValueAt(_, _)
ValueAt(j, path) ==
    IF path = <<>> THEN j ELSE ValueAt(MemberOf(j.v, Head(path)), Tail(path))

\* the healing marker lies inside the serialization of a partial input
MarkedDump(serialized) ==
    /\ is_partial_
    /\ ParsedJson.healing_marker.marker # <<>>
    /\ find(serialized, ParsedJson.healing_marker.json_dump_marker, 0) # npos

\* the serialization as the result is to hold it
ExpectedDump(serialized) ==
    IF MarkedDump(serialized)
    THEN substr(serialized, 0,
                find(serialized, ParsedJson.healing_marker.json_dump_marker, 0))
    ELSE serialized

\* C16: for every path of args_paths at which the parsed JSON has a value, of
\* whatever type and depth, the result holds at that path a string equal to the
\* value's serialization, cut at the first json_dump_marker when the input is
\* partial and the marker lies inside it, is_partial_result being true then.
C16_ArgsDumped ==
    DumpedArgs =>
        \A path \in args.args_paths :
            HasPath(ParsedJson.json, path) =>
                /\ HasPath(ret.value, path)
                /\ ValueAt(ret.value, path)
                       = JString(ExpectedDump(dump(ValueAt(ParsedJson.json, path))))
                /\ MarkedDump(dump(ValueAt(ParsedJson.json, path))) => ret.is_partial

\* the string at a content path is whole in the result: as it was parsed, or
\* serialized where the path is an arguments path too
StringKept(path) ==
    (/\ HasPath(ParsedJson.json, path)
     /\ ValueAt(ParsedJson.json, path).t = "string")
    => /\ HasPath(ret.value, path)
       /\ ValueAt(ret.value, path)
              \in {ValueAt(ParsedJson.json, path),
                   JString(dump(ValueAt(ParsedJson.json, path)))}

\* C19: when the partial-JSON parser reports no healing (an empty marker),
\* try_consume_json_with_dumped_args returns is_partial_result = false and
\* cuts no string, whatever args_paths and content_paths are.
C19_NoHealingNotPartial ==
    (DumpedArgs /\ ParsedJson.healing_marker.marker = <<>>)
    => /\ ~ret.is_partial
       /\ \A path \in args.content_paths : StringKept(path)

\* the objects the dumper may clean: the root and what lies below these keys
ObjectPaths == {<<>>, <<S_args>>, <<S_o>>, <<S_o, S_args>>}

IsPrefixOf(a, b) == Len(a) <= Len(b) /\ SubSeq(b, 1, Len(a)) = a

\* the parsed JSON has an object at the path, and neither the path nor a path
\* above it is an arguments path or a content path
CleanedObject(path) ==
    /\ HasPath(ParsedJson.json, path)
    /\ ValueAt(ParsedJson.json, path).t = "object"
    /\ \A p \in args.args_paths \cup args.content_paths : ~IsPrefixOf(p, path)

\* the members whose key or string value holds the healing marker
MarkedMembers(members) ==
    {i \in 1..Len(members) :
        \/ find(members[i][1], healing_marker_, 0) # npos
        \/ /\ members[i][2].t = "string"
           /\ find(members[i][2].v, healing_marker_, 0) # npos}

\* the first marked member is kept: the marker is in its string value, its
\* path is a content path and the healing fell inside the string
KeepsMarked(path, member) ==
    /\ find(member[1], healing_marker_, 0) = npos
    /\ member[2].t = "string"
    /\ Append(path, member[1]) \in args.content_paths
    /\ ParsedJson.healing_marker.marker = ParsedJson.healing_marker.json_dump_marker

\* the string cut at the marker
CutAtMarker(str) == substr(str, 0, find(str, healing_marker_, 0))

\* the members of the cleaned object: those before the first marked one and,
\* where it is kept, that one with the value given
CleanedTo(path, members, first, kept_value) ==
    /\ HasPath(ret.value, path)
    /\ ValueAt(ret.value, path) =
           JObject(IF KeepsMarked(path, members[first])
                   THEN Append(SubSeq(members, 1, first - 1),
                               <<members[first][1], kept_value>>)
                   ELSE SubSeq(members, 1, first - 1))
    /\ ret.is_partial

\* the cleaned object is as stated, the kept string being cut at the marker
TruncatedAsStated(path, members) ==
    MarkedMembers(members) # {} =>
        CleanedTo(path, members, MinOf(MarkedMembers(members)),
                  JString(CutAtMarker(members[MinOf(MarkedMembers(members))][2].v)))

\* the kept value where the pair's path is an arguments path too: its
\* serialization, cut at json_dump_marker
KeptValue(path, member) ==
    IF Append(path, member[1]) \in args.args_paths
    THEN JString(ExpectedDump(dump(member[2])))
    ELSE JString(CutAtMarker(member[2].v))

TruncatedAtMarker(path, members) ==
    MarkedMembers(members) # {} =>
        CleanedTo(path, members, MinOf(MarkedMembers(members)),
                  KeptValue(path, members[MinOf(MarkedMembers(members))]))

=============================================================================
